---- MODULE Spec2Model ----
(***************************************************************************)
(* A model of the gcli-api gateway: the credential pool and its rotation   *)
(* (src/src/credential_manager.py), the chat request with its onboarding   *)
(* (src/src/services), and the stream processor with its formatters        *)
(* (src/src/core/streaming.py, src/src/adapters).                          *)
(***************************************************************************)
EXTENDS Integers, Sequences, FiniteSets, TLC

\* ------------------------------------------------------------------------
\* Bounds of the model
\* ------------------------------------------------------------------------
MaxCreds == 2
MaxCalls == 3
MaxChunks == 2
MaxParts == 2
MaxDepth == 2
Precision == 6
MaxLines == 2

\* ------------------------------------------------------------------------
\* The credential pool: CredentialManager (src/src/credential_manager.py)
\* ------------------------------------------------------------------------
VARIABLES
    ncreds,                 \* len(self._credentials), fixed after load_credentials
    is_valid,               \* ManagedCredential.is_valid of each entry
    token,                  \* credential.token / credential.expiry of each entry
                            \* ("revoked" once the endpoint said invalid_grant)
    next_credential_index,  \* self._next_credential_index
    lock,                   \* self._lock: 0 when free, else the task holding it
    pc,                     \* where each task is inside get_next_credential
    probes,                 \* the loop counter of "for _ in range(len(...))"
    managed_cred,           \* the entry a task is refreshing
    call,                   \* what the running call of a task has done so far
    hist                    \* the completed calls, in the order they returned

poolVars == <<ncreds, is_valid, token, next_credential_index, lock, pc, probes,
              managed_cred, call, hist>>

\* The credentials' onboarding state and the chat requests in flight
\* (src/src/services/onboarding_service.py, chat_completion_service.py)
VARIABLES
    project_id,     \* ManagedCredential.project_id ("" when unset)
    is_onboarded,   \* ManagedCredential.is_onboarded
    tier,           \* upstream: the account of the credential has a currentTier
    rq,             \* each request: where it is, its inputs and its answer
    calls           \* upstream calls issued so far, per credential

chatVars == <<project_id, is_onboarded, tier, rq, calls>>

\* The stream processor and its formatter (src/src/core/streaming.py,
\* src/src/adapters/formatters.py, src/src/adapters/claude_transformers.py)
VARIABLES
    formatter,      \* the surface whose Formatter renders the stream
    sp,             \* where StreamProcessor.process is
    had_error,      \* the local had_error of process
    streamer,       \* the ClaudeStreamer of a ClaudeFormatter
    nchunks,        \* upstream chunks received so far
    out,            \* the frames sent to the client, in order
    raised          \* the exception raised inside process, if any

streamVars == <<formatter, sp, had_error, streamer, nchunks, out, raised>>

\* The adaptation of an inbound chat request into the upstream request body
\* (src/src/api, src/src/adapters, services/chat_completion_service.py)
VARIABLES
    inbound,        \* the request as the client sent it
    gemini_request, \* the GeminiRequest the route hands to the service
    payload,        \* the body sent upstream: {model, project, request}
    apc             \* how far the adaptation has come

adaptVars == <<inbound, gemini_request, payload, apc>>

\* The embedding requests (src/src/services/embedding_service.py and the
\* embedding routes of src/src/api)
VARIABLES
    EMBEDDING_GEMINI_API_KEY,   \* the setting: "" when not configured
    em                          \* the embedding requests

embedVars == <<EMBEDDING_GEMINI_API_KEY, em>>

\* The inbound authentication (src/src/core/auth.py)
VARIABLES
    GEMINI_AUTH_PASSWORD,   \* the setting: the shared password
    request,                \* the inbound request: its key parameter and headers
    answer                  \* what authenticate_user made of it

authVars == <<GEMINI_AUTH_PASSWORD, request, answer>>

\* The rendering of one upstream candidate for the client
\* (src/src/adapters/openai_transformers.py, claude_transformers.py)
VARIABLES
    candidate,      \* the upstream candidate: its parts and its finishReason
    format_as,      \* the surface, and whether the candidate is a stream chunk
    formatted       \* the choices and the stop reason made of it

formatVars == <<candidate, format_as, formatted>>

VARIABLES
    attempt,        \* the loop variable of _perform_onboarding's polling
    delay,          \* the wait computed after the latest not-done poll
    slept           \* the wait before that one

backoffVars == <<attempt, delay, slept>>

VARIABLES
    upstream_lines, \* response.aiter_lines(): the lines of the upstream body
    consumed,       \* how many of them _parse_google_sse has taken
    yielded,        \* the chunks it has yielded, in order
    parser          \* the generator: running, ended, or left by an exception

parseVars == <<upstream_lines, consumed, yielded, parser>>

\* The metadata of a Claude stream: ClaudeFormatter.format_chunk and
\* ClaudeStreamer._ensure_message_started (src/src/adapters)
VARIABLES
    meta_streamer,  \* the ClaudeStreamer: its id, model and flags
    message_start,  \* the message_start event sent to the client, if any
    seen,           \* the chunks handed to the formatter so far, in order
    stream_over     \* process has told the formatter that the stream ended

metaVars == <<meta_streamer, message_start, seen, stream_over>>

vars == <<poolVars, chatVars, streamVars, adaptVars, embedVars, authVars,
          formatVars, backoffVars, parseVars, metaVars>>

\* What the actions of one part leave alone
notPoolVars == <<chatVars, streamVars, adaptVars, embedVars, authVars, formatVars, backoffVars, parseVars, metaVars>>
notChatVars == <<poolVars, streamVars, adaptVars, embedVars, authVars, formatVars, backoffVars, parseVars, metaVars>>
notStreamVars == <<poolVars, chatVars, adaptVars, embedVars, authVars, formatVars, backoffVars, parseVars, metaVars>>
notAdaptVars == <<poolVars, chatVars, streamVars, embedVars, authVars, formatVars, backoffVars, parseVars, metaVars>>
notEmbedVars == <<chatVars, streamVars, adaptVars, authVars, formatVars, backoffVars, parseVars, metaVars>>
notAuthVars == <<poolVars, chatVars, streamVars, adaptVars, embedVars, formatVars, backoffVars, parseVars, metaVars>>
notFormatVars == <<poolVars, chatVars, streamVars, adaptVars, embedVars, authVars, backoffVars, parseVars, metaVars>>
notMetaVars == <<poolVars, chatVars, streamVars, adaptVars, embedVars, authVars, formatVars, backoffVars, parseVars>>

Tasks == {1, 2}
Slots == 0 .. (MaxCreds - 1)
Creds == 0 .. (ncreds - 1)
NoneRes == -1

\* credential.expired of google-auth: no expiry recorded (a token never
\* fetched) reads as "not expired"; otherwise the clock decides.
NeverExpired(c) == FALSE
expired(c) == token[c] = "expired"

\* line 111: entries marked invalid are skipped
NeverSkipped(c) == FALSE
Skipped(c) == ~is_valid[c]

\* line 108: the cursor advances by one per probe, modulo the pool size
StuckIndex(i) == i
NextIndex(i) == (i + 1) % ncreds

\* get_rotating_credential: None becomes HTTP 503, an entry is handed on (0)
AlwaysHandedOn(res) == 0
get_rotating_credential(res) == IF res = NoneRes THEN 503 ELSE 0

NewCall == [skipped |-> {}, tried |-> {}, failed |-> {}, revoked |-> {},
            inv0 |-> {}]

PoolInit ==
    /\ ncreds \in 0 .. MaxCreds
    /\ is_valid = [c \in Slots |-> TRUE]
    /\ token = [c \in Slots |-> "none"]
    /\ next_credential_index = 0
    /\ lock = 0
    /\ pc = [t \in Tasks |-> "idle"]
    /\ probes = [t \in Tasks |-> 0]
    /\ managed_cred = [t \in Tasks |-> NoneRes]
    /\ call = [t \in Tasks |-> NewCall]
    /\ hist = <<>>

\* The value a call returns, with what was true of it at the moment of
\* return; the locals of the call end with it.
Returned(t, res, how, tok) ==
    /\ hist' = Append(hist, [res |-> res, how |-> how, tok |-> tok,
                             status |-> get_rotating_credential(res),
                             skipped |-> call[t].skipped,
                             tried |-> call[t].tried,
                             failed |-> call[t].failed,
                             revoked |-> call[t].revoked,
                             inv0 |-> call[t].inv0])
    /\ pc' = [pc EXCEPT ![t] = "idle"]
    /\ call' = [call EXCEPT ![t] = NewCall]
    /\ probes' = [probes EXCEPT ![t] = 0]
    /\ managed_cred' = [managed_cred EXCEPT ![t] = NoneRes]

\* warm_up_credentials, started by lifespan: a best-effort first refresh of an
\* entry that has no token yet
WarmUp(c) ==
    /\ c \in Creds
    /\ token[c] = "none"
    /\ token' = [token EXCEPT ![c] = "fresh"]
    /\ UNCHANGED <<ncreds, is_valid, next_credential_index, lock, pc, probes,
                   managed_cred, call, hist>>
    /\ UNCHANGED notPoolVars

\* The clock passes the (skewed) expiry of a token.
Tick(c) ==
    /\ c \in Creds
    /\ token[c] = "fresh"
    /\ token' = [token EXCEPT ![c] = "expired"]
    /\ UNCHANGED <<ncreds, is_valid, next_credential_index, lock, pc, probes,
                   managed_cred, call, hist>>
    /\ UNCHANGED notPoolVars

\* get_next_credential is called: an empty pool answers None at once
\* (lines 100-101), otherwise the task goes for the lock (line 103).
Call(t) ==
    /\ pc[t] = "idle"
    /\ Len(hist) + Cardinality({u \in Tasks : pc[u] # "idle"}) < MaxCalls
    /\ IF ncreds = 0
       THEN Returned(t, NoneRes, "empty", "none")
       ELSE /\ call' = [call EXCEPT ![t] =
                         [NewCall EXCEPT !.inv0 = {c \in Creds : ~is_valid[c]}]]
            /\ pc' = [pc EXCEPT ![t] = "waitlock"]
            /\ UNCHANGED <<probes, managed_cred, hist>>
    /\ UNCHANGED <<ncreds, is_valid, token, next_credential_index, lock>>
    /\ UNCHANGED notPoolVars

\* asyncio.Lock: acquire() goes through only while nobody holds the lock
AlwaysFree(l) == TRUE
Free(l) == l = 0

\* async with self._lock (line 103): leaving the block, by a return or at
\* its end, releases the lock
NeverReleased == lock' = lock
ReleaseLock == lock' = 0

\* async with self._lock
Acquire(t) ==
    /\ pc[t] = "waitlock"
    /\ Free(lock)
    /\ lock' = t
    /\ pc' = [pc EXCEPT ![t] = "probe"]
    /\ probes' = [probes EXCEPT ![t] = 0]
    /\ UNCHANGED <<ncreds, is_valid, token, next_credential_index, managed_cred,
                   call, hist>>
    /\ UNCHANGED notPoolVars

\* One turn of the loop (lines 105-124): take the entry under the cursor,
\* advance the cursor, skip an invalid entry, return a non-expired one,
\* otherwise start its refresh.
Probe(t) ==
    /\ pc[t] = "probe"
    /\ lock = t
    /\ probes[t] < ncreds
    /\ LET index == next_credential_index IN
       /\ next_credential_index' = NextIndex(index)
       /\ IF Skipped(index)
          THEN /\ call' = [call EXCEPT ![t].skipped = @ \cup {index}]
               /\ probes' = [probes EXCEPT ![t] = @ + 1]
               /\ UNCHANGED <<lock, pc, managed_cred, hist>>
          ELSE IF ~expired(index)
          THEN /\ Returned(t, index, "observed", token[index])
               /\ ReleaseLock
          ELSE /\ call' = [call EXCEPT ![t].tried = @ \cup {index}]
               /\ probes' = [probes EXCEPT ![t] = @ + 1]
               /\ managed_cred' = [managed_cred EXCEPT ![t] = index]
               /\ pc' = [pc EXCEPT ![t] = "refreshing"]
               /\ UNCHANGED <<lock, hist>>
    /\ UNCHANGED <<ncreds, is_valid, token>>
    /\ UNCHANGED notPoolVars

\* line 127-129: the refresh succeeded; the entry is returned
RefreshOk(t) ==
    /\ pc[t] = "refreshing"
    /\ lock = t
    /\ token' = [token EXCEPT ![managed_cred[t]] = "fresh"]
    /\ Returned(t, managed_cred[t], "refreshed", token'[managed_cred[t]])
    /\ ReleaseLock
    /\ UNCHANGED <<ncreds, is_valid, next_credential_index>>
    /\ UNCHANGED notPoolVars

\* lines 130-136: RefreshError marks the entry invalid, the loop goes on.
\* The token endpoint's refusal is a RefreshError whatever its cause: the
\* grant is gone (invalid_grant: the token is "revoked" from then on), or
\* the endpoint is unavailable for the moment (retryable: the token stays
\* as it was).  The handler does not look at the cause.
RefreshError(t) ==
    /\ pc[t] = "refreshing"
    /\ lock = t
    /\ is_valid' = [is_valid EXCEPT ![managed_cred[t]] = FALSE]
    /\ \E retryable \in BOOLEAN :
          token' = IF retryable THEN token
                   ELSE [token EXCEPT ![managed_cred[t]] = "revoked"]
    /\ call' = [call EXCEPT ![t].failed = @ \cup {managed_cred[t]},
                            ![t].revoked = @ \cup {managed_cred[t]}]
    /\ pc' = [pc EXCEPT ![t] = "probe"]
    /\ UNCHANGED <<ncreds, next_credential_index, lock, probes,
                   managed_cred, hist>>
    /\ UNCHANGED notPoolVars

\* lines 137-140: any other failure leaves the flag alone, the loop goes on
RefreshException(t) ==
    /\ pc[t] = "refreshing"
    /\ lock = t
    /\ call' = [call EXCEPT ![t].failed = @ \cup {managed_cred[t]}]
    /\ pc' = [pc EXCEPT ![t] = "probe"]
    /\ UNCHANGED <<ncreds, is_valid, token, next_credential_index, lock, probes,
                   managed_cred, hist>>
    /\ UNCHANGED notPoolVars

\* lines 142-144: the loop ran out; the lock is released and None returned
Exhausted(t) ==
    /\ pc[t] = "probe"
    /\ lock = t
    /\ probes[t] >= ncreds
    /\ Returned(t, NoneRes, "exhausted", "none")
    /\ ReleaseLock
    /\ UNCHANGED <<ncreds, is_valid, token, next_credential_index>>
    /\ UNCHANGED notPoolVars

PoolNext ==
    \/ \E c \in Slots : WarmUp(c)
    \/ \E c \in Slots : Tick(c)
    \/ \E t \in Tasks : Call(t)
    \/ \E t \in Tasks : Acquire(t)
    \/ \E t \in Tasks : Probe(t)
    \/ \E t \in Tasks : RefreshOk(t)
    \/ \E t \in Tasks : RefreshError(t)
    \/ \E t \in Tasks : RefreshException(t)
    \/ \E t \in Tasks : Exhausted(t)

\* ------------------------------------------------------------------------
\* The chat request: route, ChatCompletionService.handle_chat_request and
\* OnboardingService.prepare_credential (src/src/api, src/src/services)
\* ------------------------------------------------------------------------
max_attempts == 5

Reqs == {1, 2}
Surfaces == {"openai", "claude", "gemini"}
ErrorStatuses == {429, 500}

NoAnswer == [status |-> 0, type |-> "none"]
IdleRequest == [pc |-> "idle", cred |-> 0, surface |-> "openai", stream |-> FALSE,
                project |-> "", attempt |-> 0, gen |-> 0, ngen |-> 0,
                resp |-> NoAnswer]
NoCalls == [discovery |-> 0, load |-> 0, onboard |-> 0, done |-> 0, generate |-> 0]

\* The exceptions in play (core/exceptions.py, fastapi)
UpstreamHttpError(status) == [kind |-> "UpstreamHttpError", status |-> status]
HTTPException(status) == [kind |-> "HTTPException", status |-> status]
ValueError == [kind |-> "ValueError", status |-> 0]

\* send_request of core/google_api_client: a non-2xx answer of the upstream
\* is raised as UpstreamHttpError carrying the upstream status
send_request(status) == UpstreamHttpError(status)

\* _fetch_project_id, lines 58-65: three exception types become a 500
FetchCatch(exc) ==
    IF exc.kind \in {"ValueError", "JSONDecodeError", "HTTPException"}
    THEN HTTPException(500)
    ELSE exc

\* _perform_onboarding, lines 134-141: an HTTPException keeps its status
OnboardCatch(exc) ==
    IF exc.kind = "HTTPException" THEN HTTPException(exc.status) ELSE exc

\* The routes' handlers: /v1/chat/completions and /v1/messages turn every
\* exception into HTTPException(500); the native route lets UpstreamHttpError
\* and MalformedContentError through first.
RouteCatch(surface, exc) ==
    IF surface = "gemini" /\ exc.kind \in {"UpstreamHttpError", "MalformedContentError"}
    THEN exc
    ELSE HTTPException(500)

\* main.py: the application's exception handlers
ExceptionHandler(exc) ==
    CASE exc.kind = "MalformedContentError" ->
             [status |-> 502, type |-> "upstream_error"]
      [] exc.kind = "UpstreamHttpError" ->
             [status |-> exc.status, type |-> "upstream_api_error"]
      [] exc.kind = "HTTPException" ->
             [status |-> exc.status, type |-> "api_error"]
      [] OTHER ->
             [status |-> 500, type |-> "unexpected_error"]

\* A credential file may carry a project_id (credential_manager line 87); a
\* fresh ManagedCredential is not onboarded; the account behind it may or may
\* not have a tier already.
ChatInit ==
    /\ project_id \in [Slots -> {"", "cfg"}]
    /\ is_onboarded = [c \in Slots |-> FALSE]
    /\ tier \in [Slots -> BOOLEAN]
    /\ \A c \in Slots \ Creds : project_id[c] = "" /\ ~tier[c]
    /\ rq = [r \in Reqs |-> IdleRequest]
    /\ calls = [c \in Slots |-> NoCalls]

\* The request ends with an exception raised inside handle_chat_request.
Raised(q, exc) ==
    [q EXCEPT !.pc = "done",
              !.resp = ExceptionHandler(RouteCatch(q.surface, exc))]

\* prepare_credential has returned (chat_completion_service lines 69-84): a
\* streaming request is answered with the StreamingResponse (lines 86-101),
\* whose status line is sent before its body is iterated, and the body's
\* first step issues streamGenerateContent (streaming.py lines 125-131); a
\* non-streaming one issues generateContent. ngen counts the calls that the
\* request issued.
Proceed(r, q) ==
    /\ rq' = [rq EXCEPT ![r] =
                 IF q.stream
                 THEN [q EXCEPT !.pc = "stream", !.ngen = @ + 1,
                                !.resp = [status |-> 200, type |-> "stream"]]
                 ELSE [q EXCEPT !.pc = "generate", !.ngen = @ + 1]]
    /\ calls' = [calls EXCEPT ![q.cred].generate = @ + 1]

\* prepare_credential lines 29-30 and _perform_onboarding lines 71-85: an
\* onboarded credential is done, any other issues loadCodeAssist
SkipOnboarding(r, q) == Proceed(r, q)
EnterOnboarding(r, q) ==
    IF is_onboarded[q.cred]
    THEN Proceed(r, q)
    ELSE /\ rq' = [rq EXCEPT ![r] = [q EXCEPT !.pc = "load"]]
         /\ calls' = [calls EXCEPT ![q.cred].load = @ + 1]

\* A chat request arrives with its credential; prepare_credential runs up to
\* its first upstream call (lines 25-27, 36-44).
ChatStart(r) ==
    /\ rq[r].pc = "idle"
    /\ \E c \in Creds, s \in Surfaces, st \in BOOLEAN :
          LET q == [rq[r] EXCEPT !.cred = c, !.surface = s, !.stream = st,
                                 !.project = project_id[c]]
          IN  IF project_id[c] = ""
              THEN /\ rq' = [rq EXCEPT ![r] = [q EXCEPT !.pc = "discover"]]
                   /\ calls' = [calls EXCEPT ![c].discovery = @ + 1]
              ELSE EnterOnboarding(r, q)
    /\ UNCHANGED <<project_id, is_onboarded, tier>>
    /\ UNCHANGED notChatVars

\* _fetch_project_id lines 45-57: the project is cached and returned
DiscoverOk(r) ==
    /\ rq[r].pc = "discover"
    /\ project_id' = [project_id EXCEPT ![rq[r].cred] = "api"]
    /\ EnterOnboarding(r, [rq[r] EXCEPT !.project = "api"])
    /\ UNCHANGED <<is_onboarded, tier>>
    /\ UNCHANGED notChatVars

\* lines 48-51: the answer holds no cloudaicompanionProject
DiscoverEmpty(r) ==
    /\ rq[r].pc = "discover"
    /\ rq' = [rq EXCEPT ![r] = Raised(rq[r], FetchCatch(ValueError))]
    /\ UNCHANGED <<project_id, is_onboarded, tier, calls>>
    /\ UNCHANGED notChatVars

\* line 44: loadCodeAssist is answered with an error status
DiscoverError(r) ==
    /\ rq[r].pc = "discover"
    /\ \E s \in ErrorStatuses :
          rq' = [rq EXCEPT ![r] = Raised(rq[r], FetchCatch(send_request(s)))]
    /\ UNCHANGED <<project_id, is_onboarded, tier, calls>>
    /\ UNCHANGED notChatVars

\* lines 86-115: loadCodeAssist answered; with a currentTier the credential is
\* onboarded, otherwise the first onboardUser is issued
LoadOk(r) ==
    /\ rq[r].pc = "load"
    /\ IF tier[rq[r].cred]
       THEN /\ is_onboarded' = [is_onboarded EXCEPT ![rq[r].cred] = TRUE]
            /\ Proceed(r, rq[r])
       ELSE /\ is_onboarded' = is_onboarded
            /\ rq' = [rq EXCEPT ![r] = [rq[r] EXCEPT !.pc = "onboard", !.attempt = 0]]
            /\ calls' = [calls EXCEPT ![rq[r].cred].onboard = @ + 1]
    /\ UNCHANGED <<project_id, tier>>
    /\ UNCHANGED notChatVars

LoadError(r) ==
    /\ rq[r].pc = "load"
    /\ \E s \in ErrorStatuses :
          rq' = [rq EXCEPT ![r] = Raised(rq[r], OnboardCatch(send_request(s)))]
    /\ UNCHANGED <<project_id, is_onboarded, tier, calls>>
    /\ UNCHANGED notChatVars

\* lines 116-122: the operation is done; the credential is marked onboarded
OnboardDone(r) ==
    /\ rq[r].pc = "onboard"
    /\ tier' = [tier EXCEPT ![rq[r].cred] = TRUE]
    /\ is_onboarded' = [is_onboarded EXCEPT ![rq[r].cred] = TRUE]
    /\ LET q == rq[r] IN
       /\ rq' = [rq EXCEPT ![r] =
                    IF q.stream
                    THEN [q EXCEPT !.pc = "stream", !.ngen = @ + 1,
                                   !.resp = [status |-> 200, type |-> "stream"]]
                    ELSE [q EXCEPT !.pc = "generate", !.ngen = @ + 1]]
       /\ calls' = [calls EXCEPT ![q.cred].done = @ + 1,
                                 ![q.cred].generate = @ + 1]
    /\ UNCHANGED project_id
    /\ UNCHANGED notChatVars

\* lines 124-128: not done yet; the task sleeps before the next attempt
OnboardPending(r) ==
    /\ rq[r].pc = "onboard"
    /\ rq' = [rq EXCEPT ![r].pc = "sleep"]
    /\ UNCHANGED <<project_id, is_onboarded, tier, calls>>
    /\ UNCHANGED notChatVars

OnboardError(r) ==
    /\ rq[r].pc = "onboard"
    /\ \E s \in ErrorStatuses :
          rq' = [rq EXCEPT ![r] = Raised(rq[r], OnboardCatch(send_request(s)))]
    /\ UNCHANGED <<project_id, is_onboarded, tier, calls>>
    /\ UNCHANGED notChatVars

\* line 112: range(max_attempts) has no value after attempt
OneAttemptMore(a) == a >= max_attempts
RangeExhausted(a) == a + 1 >= max_attempts

\* line 112: the sleep is over; the next attempt is issued, or after
\* max_attempts the loop ends with a warning and the request goes on
Wake(r) ==
    /\ rq[r].pc = "sleep"
    /\ IF ~RangeExhausted(rq[r].attempt)
       THEN /\ rq' = [rq EXCEPT ![r] =
                        [rq[r] EXCEPT !.pc = "onboard", !.attempt = @ + 1]]
            /\ calls' = [calls EXCEPT ![rq[r].cred].onboard = @ + 1]
       ELSE Proceed(r, rq[r])
    /\ UNCHANGED <<project_id, is_onboarded, tier>>
    /\ UNCHANGED notChatVars

\* _process_non_streaming_request: generateContent answered 2xx with a
\* response the formatter renders
GenerateOk(r) ==
    /\ rq[r].pc = "generate"
    /\ rq' = [rq EXCEPT ![r] = [rq[r] EXCEPT !.pc = "done", !.gen = 200,
                                             !.resp = [status |-> 200, type |-> "ok"]]]
    /\ UNCHANGED <<project_id, is_onboarded, tier, calls>>
    /\ UNCHANGED notChatVars

\* lines 115-119: a 2xx answer without 'response' or 'result'
GenerateEmpty(r) ==
    /\ rq[r].pc = "generate"
    /\ rq' = [rq EXCEPT ![r] = Raised([rq[r] EXCEPT !.gen = 200], ValueError)]
    /\ UNCHANGED <<project_id, is_onboarded, tier, calls>>
    /\ UNCHANGED notChatVars

\* line 112: generateContent is answered with an error status
GenerateError(r) ==
    /\ rq[r].pc = "generate"
    /\ \E s \in ErrorStatuses :
          rq' = [rq EXCEPT ![r] = Raised([rq[r] EXCEPT !.gen = s], send_request(s))]
    /\ UNCHANGED <<project_id, is_onboarded, tier, calls>>
    /\ UNCHANGED notChatVars

\* streaming.py lines 133-135: streamGenerateContent answered 2xx, the chunks
\* are sent as frames of the response
StreamAnswered(r) ==
    /\ rq[r].pc = "stream"
    /\ rq' = [rq EXCEPT ![r] = [rq[r] EXCEPT !.pc = "done", !.gen = 200]]
    /\ UNCHANGED <<project_id, is_onboarded, tier, calls>>
    /\ UNCHANGED notChatVars

\* streaming.py lines 136-140, 150-157: streamGenerateContent answered with an
\* error status; the error goes into a frame of the response already begun,
\* and the body ends
StreamRetried(r) ==
    /\ rq[r].pc = "stream"
    /\ rq[r].ngen < 2
    /\ \E s \in ErrorStatuses :
          rq' = [rq EXCEPT ![r] = [rq[r] EXCEPT !.gen = s, !.ngen = @ + 1]]
    /\ calls' = [calls EXCEPT ![rq[r].cred].generate = @ + 1]
    /\ UNCHANGED <<project_id, is_onboarded, tier>>
    /\ UNCHANGED notChatVars
StreamRefused(r) ==
    /\ rq[r].pc = "stream"
    /\ \E s \in ErrorStatuses :
          rq' = [rq EXCEPT ![r] = [rq[r] EXCEPT !.pc = "done", !.gen = s]]
    /\ UNCHANGED <<project_id, is_onboarded, tier, calls>>
    /\ UNCHANGED notChatVars

ChatNext ==
    \/ \E r \in Reqs : ChatStart(r)
    \/ \E r \in Reqs : DiscoverOk(r)
    \/ \E r \in Reqs : DiscoverEmpty(r)
    \/ \E r \in Reqs : DiscoverError(r)
    \/ \E r \in Reqs : LoadOk(r)
    \/ \E r \in Reqs : LoadError(r)
    \/ \E r \in Reqs : OnboardDone(r)
    \/ \E r \in Reqs : OnboardPending(r)
    \/ \E r \in Reqs : OnboardError(r)
    \/ \E r \in Reqs : Wake(r)
    \/ \E r \in Reqs : GenerateOk(r)
    \/ \E r \in Reqs : GenerateEmpty(r)
    \/ \E r \in Reqs : GenerateError(r)
    \/ \E r \in Reqs : StreamAnswered(r)
    \/ \E r \in Reqs : StreamRefused(r)

\* ------------------------------------------------------------------------
\* The stream: StreamProcessor.process and the formatters
\* (src/src/core/streaming.py, src/src/adapters)
\* ------------------------------------------------------------------------
PartKinds == {"text", "call", "other"}
FinishReasons == {"", "STOP", "MAX_TOKENS", "TOOL_USE", "SAFETY"}
PartSeqs == UNION {[1 .. k -> PartKinds] : k \in 0 .. MaxParts}

\* What _parse_google_sse yields: a GeminiResponse without candidates (usage
\* metadata only) or with a first candidate, its content parts and, on the
\* last chunk, a finishReason. None is the end-of-stream signal of process.
None == [none |-> TRUE, cands |-> FALSE, parts |-> <<>>, finish |-> ""]
GeminiResponse ==
    {[none |-> FALSE, cands |-> FALSE, parts |-> <<>>, finish |-> ""]}
        \cup [none : {FALSE}, cands : {TRUE}, parts : PartSeqs,
              finish : FinishReasons]

NoIndex == -1
\* A frame: its event, its block index, its argument (block type or stop
\* reason) and the parts whose content it carries
Frame(ev, index, arg) == [ev |-> ev, index |-> index, arg |-> arg, src |-> <<>>]
Carrying(frame, ids) == [frame EXCEPT !.src = ids]
ErrorFrame == Frame("error", NoIndex, "")
DoneFrame == Frame("[DONE]", NoIndex, "")

\* ClaudeStreamer.__init__
ClaudeStreamer ==
    [is_finished |-> FALSE, content_block_index |-> 0, last_block_type |-> "",
     message_started |-> FALSE]

\* _map_gemini_to_claude_finish_reason
map_gemini_to_claude_finish_reason(gemini_reason) ==
    CASE gemini_reason = "" -> "end_turn"
      [] gemini_reason = "STOP" -> "end_turn"
      [] gemini_reason = "MAX_TOKENS" -> "max_tokens"
      [] gemini_reason = "TOOL_USE" -> "tool_use"
      [] OTHER -> "stop"

\* ClaudeStreamer._ensure_message_started
ensure_message_started(s) ==
    IF s.message_started
    THEN [streamer |-> s, events |-> <<>>]
    ELSE [streamer |-> [s EXCEPT !.message_started = TRUE],
          events |-> <<Frame("message_start", NoIndex, "")>>]

\* format_chunk lines 210-213
has_content(chunk) == ~chunk.none /\ chunk.cands
FinalOnlyOnFinishReason(chunk) == chunk.cands /\ chunk.finish # ""
is_final_chunk(chunk) == chunk.none \/ (chunk.cands /\ chunk.finish # "")

\* format_chunk lines 226-241: the block a part belongs to ("" for a part
\* with neither text nor functionCall, which is passed over)
current_block_type(part) ==
    CASE part.kind = "text" -> "text"
      [] part.kind = "call" -> "tool_use"
      [] OTHER -> ""

\* format_chunk lines 226-237: the delta that carries the part's content
delta_model(block_type) ==
    IF block_type = "text" THEN "text_delta" ELSE "input_json_delta"

\* format_chunk line 246: a block is open and is of another type
NeverChanges(last_block_type, cur) == FALSE
BlockChanges(last_block_type, cur) ==
    last_block_type # "" /\ last_block_type # cur

\* format_chunk lines 219-266: the loop over the parts of the first candidate
RECURSIVE FormatParts(_, _, _)
FormatParts(parts, s, events) ==
    IF parts = <<>>
    THEN [streamer |-> s, events |-> events]
    ELSE LET cur == current_block_type(Head(parts))
             closes == BlockChanges(s.last_block_type, cur)
             s1 == IF closes
                   THEN [s EXCEPT !.content_block_index = @ + 1,
                                  !.last_block_type = ""]
                   ELSE s
             stop == IF closes
                     THEN <<Frame("content_block_stop", s.content_block_index, "")>>
                     ELSE <<>>
             opens == s1.last_block_type = ""
             s2 == IF opens THEN [s1 EXCEPT !.last_block_type = cur] ELSE s1
             start == IF opens
                      THEN <<Frame("content_block_start", s1.content_block_index, cur)>>
                      ELSE <<>>
             delta == <<Carrying(Frame("content_block_delta",
                                       s2.content_block_index, delta_model(cur)),
                                 <<Head(parts).id>>)>>
         IN  IF cur = ""
             THEN FormatParts(Tail(parts), s, events)
             ELSE FormatParts(Tail(parts), s2, events \o stop \o start \o delta)

\* format_chunk lines 283-286: a tool call still open at the end of the
\* stream decides the stop reason
FinishReasonPrevails(last_block_type, mapped) == mapped
ToolUsePrevails(last_block_type, mapped) ==
    IF last_block_type = "tool_use" THEN "tool_use" ELSE mapped

\* ClaudeStreamer.format_chunk
ClaudeFormatChunk(s, chunk) ==
    IF s.is_finished
    THEN [streamer |-> s, events |-> <<>>]
    ELSE LET started == ensure_message_started(s)
             a == IF has_content(chunk)
                  THEN FormatParts(chunk.parts, started.streamer, started.events)
                  ELSE [streamer |-> s, events |-> <<>>]
             b == ensure_message_started([a.streamer EXCEPT !.is_finished = TRUE])
             last == a.streamer.last_block_type
             mapped == IF ~chunk.none /\ chunk.cands
                       THEN map_gemini_to_claude_finish_reason(chunk.finish)
                       ELSE "end_turn"
             stop_reason == ToolUsePrevails(last, mapped)
             stop == IF last # ""
                     THEN <<Frame("content_block_stop",
                                  a.streamer.content_block_index, "")>>
                     ELSE <<>>
         IN  IF ~is_final_chunk(chunk)
             THEN a
             ELSE [streamer |-> b.streamer,
                   events |-> a.events \o b.events \o stop \o
                              <<Frame("message_delta", NoIndex, stop_reason),
                                Frame("message_stop", NoIndex, "")>>]

\* The content of the parts, in the order of the parts
ReversedIds(parts) == [p \in 1..Len(parts) |-> parts[Len(parts) + 1 - p].id]
Ids(parts) == [p \in 1..Len(parts) |-> parts[p].id]

\* _gemini_candidate_to_openai_choices: one choice per text part and per
\* function call, in the order of the parts
Choices(parts) == Ids(SelectSeq(parts, LAMBDA part : part.kind \in {"text", "call"}))

\* A chunk as process receives it: each part has its kind and its content,
\* the content being named by the chunk and the place it came in
Arrived(chunk, n) ==
    [chunk EXCEPT !.parts = [p \in 1..Len(chunk.parts) |->
                                [kind |-> chunk.parts[p], id |-> <<n, p>>]]]

\* Formatter.format_chunk of the three formatters: the Gemini and OpenAI
\* formatters render one frame per chunk and nothing at the end of the stream
format_chunk(f, s, chunk) ==
    IF f = "claude"
    THEN ClaudeFormatChunk(s, chunk)
    ELSE [streamer |-> s,
          events |-> IF chunk.none
                     THEN <<>>
                     ELSE <<Carrying(Frame("chunk", NoIndex, ""),
                                     IF f = "openai"
                                     THEN Choices(chunk.parts)
                                     ELSE Ids(chunk.parts))>>]

\* process line 167: "except Exception" catches the exceptions that derive
\* from Exception; a cancellation (asyncio.CancelledError, GeneratorExit)
\* derives from BaseException only
CatchesBaseException(e) == TRUE
Catches(e) == e = "Exception"

\* process lines 177-178: the sentinel that closes an OpenAI stream
NoSentinel(f) == <<>>
Sentinel(f) == IF f = "openai" THEN <<DoneFrame>> ELSE <<>>

\* process lines 162-165: after the loop the formatter is told that the
\* stream ended, unless a StreamError ended it
AlwaysEndOfStream(f, s, err) == format_chunk(f, s, None)
EndOfStream(f, s, err) ==
    IF err THEN [streamer |-> s, events |-> <<>>] ELSE format_chunk(f, s, None)

StreamInit ==
    /\ formatter = "none"
    /\ sp = "idle"
    /\ had_error = FALSE
    /\ streamer = ClaudeStreamer
    /\ nchunks = 0
    /\ out = <<>>
    /\ raised = "none"

\* process lines 167-178 when exception e reaches the try block: if the
\* handler catches it the error frame and the sentinel are sent, otherwise
\* it leaves the generator and nothing more is sent
Raise(e) ==
    /\ raised' = e
    /\ IF Catches(e)
       THEN /\ out' = out \o <<ErrorFrame>> \o Sentinel(formatter)
            /\ sp' = "done"
       ELSE /\ out' = out
            /\ sp' = "cancelled"

\* _process_streaming_request: a StreamProcessor with the surface's formatter
\* is handed to the StreamingResponse
StreamStart ==
    /\ sp = "idle"
    /\ \E f \in Surfaces : formatter' = f
    /\ sp' = "connect"
    /\ UNCHANGED <<had_error, streamer, nchunks, out, raised>>
    /\ UNCHANGED notStreamVars

\* _stream_generator line 133: the upstream answered 2xx
ConnectOk ==
    /\ sp = "connect"
    /\ sp' = "stream"
    /\ UNCHANGED <<formatter, had_error, streamer, nchunks, out, raised>>
    /\ UNCHANGED notStreamVars

\* _stream_generator lines 136-140 and process lines 150-157, 162, 177-178:
\* an upstream error status becomes a StreamError, process sends the error
\* frame, leaves the loop, skips the formatter's end of stream
ConnectStatusError ==
    /\ sp = "connect"
    /\ had_error' = TRUE
    /\ LET r == EndOfStream(formatter, streamer, TRUE)
       IN  /\ streamer' = r.streamer
           /\ out' = out \o <<ErrorFrame>> \o r.events \o Sentinel(formatter)
    /\ sp' = "done"
    /\ UNCHANGED <<formatter, nchunks, raised>>
    /\ UNCHANGED notStreamVars

\* process lines 167-178: any other exception, while connecting or between
\* chunks, is caught and sent as an error frame
StreamException ==
    /\ sp \in {"connect", "stream"}
    /\ Raise("Exception")
    /\ UNCHANGED <<formatter, had_error, streamer, nchunks>>
    /\ UNCHANGED notStreamVars

\* The client goes away while process waits for the upstream or is
\* suspended at a yield: the server cancels the task that iterates the body,
\* the cancellation is raised inside process and _stream_generator, whose
\* "async with" blocks (lines 125-131) close the upstream connection
ClientDisconnect ==
    /\ sp \in {"connect", "stream"}
    /\ Raise("CancelledError")
    /\ UNCHANGED <<formatter, had_error, streamer, nchunks>>
    /\ UNCHANGED notStreamVars

\* process lines 149, 158-160: a chunk arrives and is formatted
UpstreamChunk ==
    /\ sp = "stream"
    /\ nchunks < MaxChunks
    /\ \E chunk \in GeminiResponse :
          LET r == format_chunk(formatter, streamer, Arrived(chunk, nchunks + 1))
          IN  /\ streamer' = r.streamer
              /\ out' = out \o r.events
    /\ nchunks' = nchunks + 1
    /\ UNCHANGED <<formatter, sp, had_error, raised>>
    /\ UNCHANGED notStreamVars

\* process lines 162-165, 177-178: the upstream stream ended; the formatter
\* is told so
UpstreamEnd ==
    /\ sp = "stream"
    /\ LET r == EndOfStream(formatter, streamer, had_error)
       IN  /\ streamer' = r.streamer
           /\ out' = out \o r.events \o Sentinel(formatter)
    /\ sp' = "done"
    /\ UNCHANGED <<formatter, had_error, nchunks, raised>>
    /\ UNCHANGED notStreamVars

StreamNext ==
    \/ StreamStart
    \/ ConnectOk
    \/ ConnectStatusError
    \/ StreamException
    \/ ClientDisconnect
    \/ UpstreamChunk
    \/ UpstreamEnd

\* ------------------------------------------------------------------------
\* Request adaptation: the routes and request transformers, the tool-schema
\* sanitiser and the payload of handle_chat_request
\* (src/src/api, src/src/adapters, src/src/utils/utils.py)
\* ------------------------------------------------------------------------

\* settings.UNSUPPORTED_TOOL_SCHEMA_KEYS, and the keys a schema is built of
unsupported_keys == {"$schema", "exclusiveMinimum"}
SchemaKeys == unsupported_keys \cup {"properties"}

\* JSON values: a scalar, an object or an array
Scalar == [t |-> "scalar"]
Dict(d) == [t |-> "dict", d |-> d]
List(l) == [t |-> "list", l |-> l]

\* Objects over the schema keys; the two annotation keys hold scalars
DictsOver(V) ==
    UNION {{f \in [S -> V] : \A k \in S \cap unsupported_keys : f[k] = Scalar} :
              S \in SUBSET SchemaKeys}

RECURSIVE Schemas(_)
Schemas(n) ==
    IF n = 0
    THEN {Scalar}
    ELSE LET V == Schemas(n - 1)
         IN  {Scalar} \cup {Dict(f) : f \in DictsOver(V)}
                      \cup {List(<<v>>) : v \in V}

\* A function declaration, with or without "parameters"
NoParameters == [has_parameters |-> FALSE, parameters |-> Scalar]
Declarations ==
    {NoParameters} \cup [has_parameters : {TRUE}, parameters : Schemas(MaxDepth)]

\* An entry of a Gemini tools list: {"functionDeclarations": [...]} or an
\* entry of another kind (googleSearch, codeExecution)
OtherTool == [has_fd |-> FALSE, functionDeclarations |-> <<>>]
FunctionTool(ds) == [has_fd |-> TRUE, functionDeclarations |-> ds]
ToolEntries ==
    {OtherTool} \cup {FunctionTool(ds) : ds \in {<<>>} \cup {<<d>> : d \in Declarations}}

\* The value under "tools": the key absent, null, an object or a list
Absent == [st |-> "absent", v |-> <<>>]
Null == [st |-> "null", v |-> <<>>]
ToolList(v) == [st |-> "list", v |-> v]
ToolDict(e) == [st |-> "dict", v |-> <<e>>]

\* sanitize_gemini_tools, _recursive_remove_keys (lines 181-190)
RECURSIVE recursive_remove_keys(_)
recursive_remove_keys(obj) ==
    CASE obj.t = "dict" ->
             Dict([k \in (DOMAIN obj.d) \ unsupported_keys |->
                      recursive_remove_keys(obj.d[k])])
      [] obj.t = "list" ->
             List([i \in 1 .. Len(obj.l) |-> recursive_remove_keys(obj.l[i])])
      [] OTHER -> obj

\* lines 197-199: every declaration of one entry
SanitizeEntry(e) ==
    [e EXCEPT !.functionDeclarations =
        [j \in 1 .. Len(@) |->
            IF @[j].has_parameters
            THEN [@[j] EXCEPT !.parameters = recursive_remove_keys(@)]
            ELSE @[j]]]

\* sanitize_gemini_tools (lines 175-201): None for no tools; otherwise a copy
\* in which the declarations of the first entry are sanitised
sanitize_gemini_tools(tools) ==
    IF tools.st # "list" \/ tools.v = <<>>
    THEN Null
    ELSE IF tools.v[1].has_fd /\ tools.v[1].functionDeclarations # <<>>
    THEN ToolList([tools.v EXCEPT ![1] = SanitizeEntry(@)])
    ELSE tools

\* GeminiRequest.normalize_tools_format (models/gemini.py lines 78-92)
normalize_tools_format(v) ==
    IF v.st = "dict" THEN ToolList(v.v) ELSE v

\* The attribute of a parsed model: an unset Optional field reads as None
Attribute(v) == IF v.st = "absent" THEN Null ELSE v

\* The inbound requests: a native body carries tools, safetySettings and
\* generationConfig of its own; an OpenAI or Claude request carries a list of
\* function declarations
NativeTools ==
    {Absent, Null, ToolList(<<>>)}
        \cup {ToolList(<<e>>) : e \in ToolEntries}
        \cup {ToolList(<<e1, e2>>) : e1 \in {OtherTool, FunctionTool(<<NoParameters>>)},
                                     e2 \in ToolEntries}
        \cup {ToolDict(FunctionTool(<<d>>)) : d \in {NoParameters}}

NativeBodies ==
    [surface : {"gemini"}, tools : NativeTools, functions : {<<>>},
     safetySettings : {"absent", "custom"}, generationConfig : {"absent", "custom"}]

ForeignRequests ==
    [surface : {"openai", "claude"}, tools : {Absent},
     functions : {<<>>} \cup {<<d>> : d \in Declarations}
                        \cup {<<NoParameters, d>> : d \in Declarations},
     safetySettings : {"absent"}, generationConfig : {"absent", "custom"}]

NoRequest == [tools |-> Absent, safetySettings |-> "absent",
              generationConfig |-> "absent"]

AdaptAtRest ==
    /\ inbound = [surface |-> "none", tools |-> Absent, functions |-> <<>>,
                  safetySettings |-> "absent", generationConfig |-> "absent"]
    /\ gemini_request = NoRequest
    /\ payload = NoRequest
    /\ apc = "idle"

AdaptInit ==
    /\ inbound \in NativeBodies \cup ForeignRequests
    /\ gemini_request = NoRequest
    /\ payload = NoRequest
    /\ apc = "received"

\* generate_content / stream_generate_content (gemini_routes.py lines 41-50,
\* 74-83): the body is parsed into a GeminiRequest, whose tools attribute is
\* then assigned the sanitised tools (an assigned field counts as set)
NativeRoute ==
    /\ apc = "received"
    /\ inbound.surface = "gemini"
    /\ gemini_request' =
          [tools |-> sanitize_gemini_tools(
                         Attribute(normalize_tools_format(inbound.tools))),
           safetySettings |-> inbound.safetySettings,
           generationConfig |-> inbound.generationConfig]
    /\ apc' = "transformed"
    /\ UNCHANGED <<inbound, payload>>
    /\ UNCHANGED notAdaptVars

\* openai_request_to_gemini (openai_transformers.py lines 214-220, 277-290):
\* one tools entry holding every function, sanitised; the default safety
\* settings and the generation config are always passed
OpenAITransform ==
    /\ apc = "received"
    /\ inbound.surface = "openai"
    /\ gemini_request' =
          [tools |-> sanitize_gemini_tools(
                         IF inbound.functions = <<>>
                         THEN Null
                         ELSE ToolList(<<FunctionTool(inbound.functions)>>)),
           safetySettings |-> "default",
           generationConfig |-> "custom"]
    /\ apc' = "transformed"
    /\ UNCHANGED <<inbound, payload>>
    /\ UNCHANGED notAdaptVars

\* claude_request_to_gemini (claude_transformers.py lines 142-163): one tools
\* entry, every declaration with a "parameters" key (the input_schema)
ClaudeTransform ==
    /\ apc = "received"
    /\ inbound.surface = "claude"
    /\ gemini_request' =
          [tools |-> sanitize_gemini_tools(
                         IF inbound.functions = <<>>
                         THEN Null
                         ELSE ToolList(<<FunctionTool(
                                  [j \in 1 .. Len(inbound.functions) |->
                                      [inbound.functions[j] EXCEPT
                                          !.has_parameters = TRUE]])>>)),
           safetySettings |-> "absent",
           generationConfig |-> "custom"]
    /\ apc' = "transformed"
    /\ UNCHANGED <<inbound, payload>>
    /\ UNCHANGED notAdaptVars

\* handle_chat_request lines 45-75: model_dump(exclude_unset=True), the default
\* safety settings when the key is missing, and the wrapping as "request"
BuildPayload ==
    /\ apc = "transformed"
    /\ payload' = [gemini_request EXCEPT
                      !.safetySettings = IF @ = "absent" THEN "default" ELSE @]
    /\ apc' = "sent"
    /\ UNCHANGED <<inbound, gemini_request>>
    /\ UNCHANGED notAdaptVars

AdaptNext ==
    \/ NativeRoute
    \/ OpenAITransform
    \/ ClaudeTransform
    \/ BuildPayload

\* ------------------------------------------------------------------------
\* The embedding requests: the three embedding routes and
\* EmbeddingService.execute_embedding_request
\* (src/src/api, src/src/services/embedding_service.py)
\* ------------------------------------------------------------------------
Embeds == {1, 2}
EmbedEndpoints == {"/v1/embeddings", ":embedContent", ":batchEmbedContents"}
ApiKeys == {"", "k"}

IdleEmbed == [pc |-> "idle", endpoint |-> "/v1/embeddings", key |-> "",
              ncalls |-> 0, status |-> 0]

\* The dependencies that the embedding routes declare: authenticate_user
\* alone, where the chat routes declare get_validated_credential, which
\* draws a credential from the rotation
ChatDependencies(endpoint) == {"authenticate_user", "get_rotating_credential"}
Dependencies(endpoint) == {"authenticate_user"}

EmbedAtRest ==
    /\ EMBEDDING_GEMINI_API_KEY = ""
    /\ em = [e \in Embeds |-> IdleEmbed]

\* An embedding request arrives: its dependencies are resolved, then
\* execute_embedding_request lines 40-55 either refuses it for want of a
\* key or sends it to the public endpoint with the key
EmbedStart(e) ==
    /\ em[e].pc = "idle"
    /\ \E ep \in EmbedEndpoints :
          /\ IF "get_rotating_credential" \in Dependencies(ep) /\ ncreds > 0
             THEN next_credential_index' = NextIndex(next_credential_index)
             ELSE next_credential_index' = next_credential_index
          /\ em' = [em EXCEPT ![e] =
                       IF EMBEDDING_GEMINI_API_KEY = ""
                       THEN [@ EXCEPT !.pc = "done", !.endpoint = ep,
                                      !.status = HTTPException(500).status]
                       ELSE [@ EXCEPT !.pc = "sent", !.endpoint = ep,
                                      !.key = EMBEDDING_GEMINI_API_KEY,
                                      !.ncalls = @ + 1]]
    /\ UNCHANGED <<ncreds, is_valid, token, lock, pc, probes, managed_cred,
                   call, hist>>
    /\ UNCHANGED EMBEDDING_GEMINI_API_KEY
    /\ UNCHANGED notEmbedVars

\* lines 56-61: the public endpoint answered 2xx
EmbedOk(e) ==
    /\ em[e].pc = "sent"
    /\ em' = [em EXCEPT ![e] = [@ EXCEPT !.pc = "done", !.status = 200]]
    /\ UNCHANGED <<poolVars, EMBEDDING_GEMINI_API_KEY>>
    /\ UNCHANGED notEmbedVars

\* send_public_api_request lines 322-337 and execute_embedding_request lines
\* 63-65: an error status is raised as an HTTPException of that status
EmbedError(e) ==
    /\ em[e].pc = "sent"
    /\ \E s \in ErrorStatuses :
          em' = [em EXCEPT ![e] = [@ EXCEPT !.pc = "done",
                                           !.status = HTTPException(s).status]]
    /\ UNCHANGED <<poolVars, EMBEDDING_GEMINI_API_KEY>>
    /\ UNCHANGED notEmbedVars

EmbedNext ==
    \/ \E e \in Embeds : EmbedStart(e)
    \/ \E e \in Embeds : EmbedOk(e)
    \/ \E e \in Embeds : EmbedError(e)

\* ------------------------------------------------------------------------
\* Inbound authentication: authenticate_user (src/src/core/auth.py)
\* ------------------------------------------------------------------------
\* A parameter or header that the request does not carry reads as None
Missing == "None"
Passwords == {"p", ""}
KeyValues == {Missing, "", "p", "x"}

\* The text inside a Basic credential, as the characters that matter
BasicTexts ==
    {<<"u", ":", "p">>, <<"u", ":", "x">>, <<"u", ":">>, <<"u">>,
     <<":", "p">>, <<"u", ":", "p", ":", "x">>, <<"p">>}

\* What follows "Basic ": the base64 text of some bytes, which may be
\* wrongly padded, may hold characters outside the base64 alphabet or
\* trailing data (junk), and whose bytes may not be UTF-8
Encodings == [text : BasicTexts, padded : BOOLEAN, junk : BOOLEAN, utf8 : BOOLEAN]
NoEncoding == [text |-> <<"u">>, padded |-> FALSE, junk |-> FALSE, utf8 |-> FALSE]

\* The Authorization header: none, "Bearer <value>", "bearer <value>" or
\* another scheme, "Basic <encoding>"
Authorizations ==
    [scheme : {"", "Bearer ", "bearer "}, value : {"", "p", "x"}, enc : {NoEncoding}]
        \cup [scheme : {"Basic "}, value : {""}, enc : Encodings]

Requests ==
    [key : KeyValues, x_goog_api_key : KeyValues, x_api_key : {Missing, "p", "x"},
     authorization : Authorizations]

\* base64.b64decode(s), validate=False: characters outside the alphabet are
\* discarded, wrong padding raises binascii.Error
b64decode(enc) ==
    IF enc.padded
    THEN [error |-> FALSE, utf8 |-> enc.utf8, text |-> enc.text]
    ELSE [error |-> TRUE, utf8 |-> FALSE, text |-> <<>>]

\* decoded.split(":", 1): the place of the first colon, 0 when there is none
\* (the unpacking into two names then raises ValueError)
FirstColon(text) ==
    IF \E i \in 1 .. Len(text) : text[i] = ":"
    THEN CHOOSE i \in 1 .. Len(text) :
            text[i] = ":" /\ \A j \in 1 .. i - 1 : text[j] # ":"
    ELSE 0

\* A password as the characters it is made of
Characters(pwd) == IF pwd = "" THEN <<>> ELSE <<pwd>>

\* lines 31-40: the Basic branch
BasicAccepts(auth, pwd) ==
    /\ auth.scheme = "Basic "
    /\ LET decoded == b64decode(auth.enc)
           colon == FirstColon(decoded.text)
       IN  /\ ~decoded.error
           /\ decoded.utf8
           /\ colon # 0
           /\ SubSeq(decoded.text, colon + 1, Len(decoded.text)) = Characters(pwd)

\* lines 16-27: the keys gathered from the request; falsy ones are skipped
potential_keys(req) ==
    {req.key, req.x_goog_api_key, req.x_api_key}
        \cup (IF req.authorization.scheme = "Bearer "
              THEN {req.authorization.value}
              ELSE {})

Accepted == [status |-> 200, www_authenticate |-> ""]
Unauthorized == [status |-> 401, www_authenticate |-> "Basic"]
NotAnswered == [status |-> 0, www_authenticate |-> ""]

authenticate_user(req, pwd) ==
    IF \E k \in potential_keys(req) : k \notin {Missing, ""} /\ k = pwd
    THEN Accepted
    ELSE IF BasicAccepts(req.authorization, pwd)
    THEN Accepted
    ELSE Unauthorized

AuthAtRest ==
    /\ GEMINI_AUTH_PASSWORD = "p"
    /\ request = [key |-> Missing, x_goog_api_key |-> Missing,
                  x_api_key |-> Missing,
                  authorization |-> [scheme |-> "", value |-> "",
                                     enc |-> NoEncoding]]
    /\ answer = NotAnswered

\* A request reaches a route that depends on authenticate_user
Authenticate ==
    /\ answer = NotAnswered
    /\ answer' = authenticate_user(request, GEMINI_AUTH_PASSWORD)
    /\ UNCHANGED <<GEMINI_AUTH_PASSWORD, request>>
    /\ UNCHANGED notAuthVars

AuthNext == Authenticate

\* ------------------------------------------------------------------------
\* The dependencies of a chat route: get_validated_credential
\* (src/src/api/dependencies.py lines 21-36)
\* ------------------------------------------------------------------------
\* Depends(authenticate_user) comes before Depends(get_rotating_credential)
\* in the signature (lines 23-24).  FastAPI solves the dependencies of a
\* function one after the other in the order of its parameters, and the
\* HTTPException of one ends the resolution: the rotation is called only
\* when authenticate_user has returned.
InAnyOrder(ans) == TRUE
AuthenticatedFirst(ans) == ans = Accepted

\* line 24: get_rotating_credential is resolved for the request, once, by
\* the task that handles it
get_validated_credential(t) ==
    /\ AuthenticatedFirst(answer)
    /\ hist = <<>>
    /\ \A u \in Tasks : pc[u] = "idle"
    /\ Call(t)

\* The request is authenticated, then its credential is picked
GateNext ==
    \/ Authenticate
    \/ \E t \in Tasks : get_validated_credential(t)
    \/ \E t \in Tasks : Acquire(t)
    \/ \E t \in Tasks : Probe(t)
    \/ \E t \in Tasks : RefreshOk(t)
    \/ \E t \in Tasks : RefreshError(t)
    \/ \E t \in Tasks : RefreshException(t)
    \/ \E t \in Tasks : Exhausted(t)

\* ------------------------------------------------------------------------
\* The rendering of a candidate: _gemini_candidate_to_openai_choices,
\* _map_finish_reason and gemini_response_to_claude (src/src/adapters)
\* ------------------------------------------------------------------------
\* The finish reasons of the upstream, "" when the candidate has none, and
\* one that the gateway does not know
UpstreamFinishReasons == FinishReasons \cup {"RECITATION", "OTHER"}
\* A part of a candidate may carry a text and a function call at once
\* (GeminiPart, models/gemini.py lines 39-48): "mixed"
CandidatePartKinds == PartKinds \cup {"mixed"}
CandidatePartSeqs == UNION {[1 .. k -> CandidatePartKinds] : k \in 0 .. MaxParts}
Candidates == [parts : CandidatePartSeqs, finish : UpstreamFinishReasons]
Renderings ==
    [surface : {"openai"}, is_streaming : BOOLEAN]
        \cup [surface : {"claude"}, is_streaming : {FALSE}]

\* None, where a finish reason or a stop reason is not given
NoReason == "None"
NotFormatted == [done |-> FALSE, choices |-> <<>>, stop_reason |-> NoReason]

\* _map_finish_reason (openai_transformers.py lines 419-450)
RecitationUnmapped(gemini_reason, is_streaming) ==
    CASE gemini_reason = "" -> IF is_streaming THEN NoReason ELSE "stop"
      [] gemini_reason = "STOP" -> "stop"
      [] gemini_reason = "MAX_TOKENS" -> "length"
      [] gemini_reason = "SAFETY" -> "content_filter"
      [] gemini_reason = "TOOL_USE" -> "tool_calls"
      [] OTHER -> "stop"
map_finish_reason(gemini_reason, is_streaming) ==
    CASE gemini_reason = "" -> IF is_streaming THEN NoReason ELSE "stop"
      [] gemini_reason = "STOP" -> "stop"
      [] gemini_reason = "MAX_TOKENS" -> "length"
      [] gemini_reason \in {"SAFETY", "RECITATION"} -> "content_filter"
      [] gemini_reason = "TOOL_USE" -> "tool_calls"
      [] OTHER -> "stop"

\* _gemini_candidate_to_openai_choices lines 304-354, the body of the loop:
\* a choice for the text of the part if it has one, then a choice for its
\* function call if it has one.  In a stream the text choice of a part that
\* also has a function call carries no finish reason (line 324).
ChoicesOfPart(kind, is_last_part, finish_reason, is_streaming) ==
    LET text_choice == [kind |-> "text", last |-> is_last_part,
                 finish_reason |-> IF is_streaming /\ kind = "mixed"
                                   THEN NoReason ELSE finish_reason]
        tool_choice == [kind |-> "call", last |-> is_last_part,
                 finish_reason |-> finish_reason]
    IN  (IF kind \in {"text", "mixed"} THEN <<text_choice>> ELSE <<>>)
            \o (IF kind \in {"call", "mixed"} THEN <<tool_choice>> ELSE <<>>)

\* _gemini_candidate_to_openai_choices lines 301-354: the choices of the
\* parts in order; the mapped finish reason is computed for the last part
\* only (lines 305-310)
RECURSIVE ChoicesUpTo(_, _, _)
ChoicesUpTo(c, is_streaming, n) ==
    IF n = 0 THEN <<>>
    ELSE ChoicesUpTo(c, is_streaming, n - 1)
            \o ChoicesOfPart(c.parts[n], n = Len(c.parts),
                             IF n = Len(c.parts)
                             THEN map_finish_reason(c.finish, is_streaming)
                             ELSE NoReason,
                             is_streaming)

gemini_candidate_to_openai_choices(c, is_streaming) ==
    ChoicesUpTo(c, is_streaming, Len(c.parts))

\* gemini_response_to_claude lines 313-328: the content blocks (a text
\* block for a part with a text, else a tool_use block for one with a
\* function call) and the mapped stop reason
gemini_response_to_claude(c) ==
    LET blocks == [i \in 1 .. Len(c.parts) |->
                      [kind |-> IF c.parts[i] = "mixed" THEN "text"
                                ELSE c.parts[i],
                       last |-> i = Len(c.parts),
                       finish_reason |-> NoReason]]
    IN  [done |-> TRUE,
         choices |-> SelectSeq(blocks, LAMBDA b : b.kind \in {"text", "call"}),
         stop_reason |-> map_gemini_to_claude_finish_reason(c.finish)]

\* Formatter.format_response / format_chunk of the OpenAI and Claude
\* formatters
format_response(c, as) ==
    IF as.surface = "openai"
    THEN [done |-> TRUE,
          choices |-> gemini_candidate_to_openai_choices(c, as.is_streaming),
          stop_reason |-> NoReason]
    ELSE gemini_response_to_claude(c)

FormatAtRest ==
    /\ candidate = [parts |-> <<>>, finish |-> ""]
    /\ format_as = [surface |-> "openai", is_streaming |-> FALSE]
    /\ formatted = NotFormatted

\* _process_non_streaming_request lines 121-135 (and format_chunk for a
\* chunk of an OpenAI stream): the upstream's candidate is rendered
FormatResponse ==
    /\ ~formatted.done
    /\ formatted' = format_response(candidate, format_as)
    /\ UNCHANGED <<candidate, format_as>>
    /\ UNCHANGED notFormatVars

FormatNext == FormatResponse

\* ------------------------------------------------------------------------
\* The onboarding backoff: the wait between two polls of onboardUser
\* (src/src/services/onboarding_service.py, lines 110-128)
\* ------------------------------------------------------------------------
\* Times are counted in steps of the grid of random.random(): 2^-53 s for a
\* double, 2^-Precision s here.
Unit == 2 ^ Precision

base_delay == 1

\* random.uniform(0, 1) is 0 + (1 - 0) * random.random(): any point of the
\* grid in [0, 1)
uniform == 0 .. (Unit - 1)

\* The spacing of the floats in [2^k, 2^(k+1)): two steps of the grid in
\* [1, 2), doubling with each power of two
Ulp(k) == 2 ^ (k + 1)

\* A float sum is the exact sum rounded to the nearest float, ties to even.
RoundToEven(x, ulp) ==
    LET q == x \div ulp
        r == x % ulp
    IN  IF 2 * r > ulp \/ (2 * r = ulp /\ q % 2 = 1)
        THEN (q + 1) * ulp
        ELSE q * ulp

\* line 124: delay = (base_delay * 2**attempt) + (random.uniform(0, 1))
NoBackoff(k, u) == RoundToEven(base_delay * Unit + u, Ulp(0))
Delay(k, u) == RoundToEven(base_delay * (2 ^ k) * Unit + u, Ulp(k))

NoDelay == -1

BackoffAtRest ==
    /\ attempt = 0
    /\ delay = NoDelay
    /\ slept = NoDelay

\* lines 113-128: the poll of this attempt is not done; the wait is
\* computed and slept, and the loop goes on to the next attempt
PollNotDone ==
    /\ attempt \in 0 .. (max_attempts - 1)
    /\ \E u \in uniform : delay' = Delay(attempt, u)
    /\ slept' = delay
    /\ attempt' = attempt + 1
    /\ UNCHANGED <<poolVars, chatVars, streamVars, adaptVars, embedVars,
                   authVars, formatVars, parseVars, metaVars>>

\* lines 117-122 and 130: the run ends, by a done answer or by the end of
\* the range; the next run starts its own count
PollingOver ==
    /\ attempt > 0
    /\ attempt' = 0
    /\ delay' = NoDelay
    /\ slept' = NoDelay
    /\ UNCHANGED <<poolVars, chatVars, streamVars, adaptVars, embedVars,
                   authVars, formatVars, parseVars, metaVars>>

BackoffNext == PollNotDone \/ PollingOver

\* ------------------------------------------------------------------------
\* The parser of the upstream's event stream: _parse_google_sse
\* (src/src/core/streaming.py, lines 18-81)
\* ------------------------------------------------------------------------
\* What json.loads makes of a payload.  A dict is known by its keys and by
\* which of them hold contents that validate; a string or a list by whether
\* "response" in it is true.
ResponseKeys == {"candidates", "response", "usageMetadata"}
JsonScalars == {[t |-> s, keys |-> {}, ok |-> {}] : s \in {"null", "number"}}
JsonTexts ==
    {[t |-> s, keys |-> k, ok |-> {}] :
        s \in {"string", "list"}, k \in {{}, {"response"}}}
JsonDicts ==
    {[t |-> "dict", keys |-> k, ok |-> o] :
        k \in SUBSET ResponseKeys, o \in SUBSET ResponseKeys}
    \ {d \in [t : {"dict"}, keys : SUBSET ResponseKeys, ok : SUBSET ResponseKeys] :
          ~(d.ok \subseteq d.keys)}
JsonValues == JsonScalars \cup JsonTexts \cup JsonDicts
Malformed == [t |-> "malformed", keys |-> {}, ok |-> {}]

\* The lines of the body: empty, not a data: line, a data: line with
\* nothing after the prefix, a data: line with a payload
Lines ==
    {[form |-> f, payload |-> Malformed] : f \in {"empty", "other", "bare"}}
    \cup {[form |-> "data", payload |-> v] : v \in JsonValues \cup {Malformed}}

\* GeminiResponse.model_validate (models/gemini.py lines 134-140): a dict
\* with a valid candidates list and, if present, valid usageMetadata
model_validate(v) ==
    /\ v.t = "dict"
    /\ "candidates" \in v.ok
    /\ "usageMetadata" \in v.keys => "usageMetadata" \in v.ok

\* key in v, as Python decides it: by key for a dict, by element for a
\* list, by substring for a string, TypeError for anything else
Iterable(v) == v.t \in {"dict", "list", "string"}

\* v[key]: only a dict can be indexed by a string
Subscriptable(v) == v.t = "dict"

NoChunk == [out |-> "nothing", kind |-> ""]
YieldChunk(kind) == [out |-> "yield", kind |-> kind]
RaiseOut(e) == [out |-> "raise", kind |-> e]

\* lines 34-81: the body of the loop for one payload
parse_payload(v) ==
    IF v.t = "malformed" THEN NoChunk                    \* lines 77-81
    ELSE IF model_validate(v) THEN YieldChunk("chunk")    \* lines 39, 53-62
    ELSE IF ~Iterable(v) THEN RaiseOut("TypeError")       \* line 41
    ELSE IF "response" \in v.keys
    THEN IF ~Subscriptable(v) THEN RaiseOut("TypeError")  \* line 43
         ELSE IF "response" \in v.ok
         THEN YieldChunk("response")                      \* lines 42-51
         ELSE NoChunk                                     \* lines 77-81
    ELSE IF "usageMetadata" \in v.keys
    THEN IF "usageMetadata" \in v.ok
         THEN YieldChunk("usageMetadata")                 \* lines 63-75
         ELSE NoChunk                                     \* lines 77-81
    ELSE NoChunk

\* lines 24-32: only a data: line with a payload reaches the parsing
parse_line(l) ==
    IF l.form = "data" THEN parse_payload(l.payload) ELSE NoChunk

ParseAtRest ==
    /\ upstream_lines = <<>>
    /\ consumed = 0
    /\ yielded = <<>>
    /\ parser = "ended"

ParseInit ==
    /\ upstream_lines \in UNION {[1 .. n -> Lines] : n \in 0 .. MaxLines}
    /\ consumed = 0
    /\ yielded = <<>>
    /\ parser = "running"

\* One turn of "async for line in response.aiter_lines()"
ParseLine ==
    /\ parser = "running"
    /\ consumed < Len(upstream_lines)
    /\ consumed' = consumed + 1
    /\ LET res == parse_line(upstream_lines[consumed'])
       IN  /\ yielded' = IF res.out = "yield"
                         THEN Append(yielded, [line |-> consumed', kind |-> res.kind])
                         ELSE yielded
           /\ parser' = IF res.out = "raise" THEN res.kind ELSE parser
    /\ UNCHANGED upstream_lines
    /\ UNCHANGED <<poolVars, chatVars, streamVars, adaptVars, embedVars,
                   authVars, formatVars, backoffVars, metaVars>>

\* The body is over: the generator returns
EndOfBody ==
    /\ parser = "running"
    /\ consumed = Len(upstream_lines)
    /\ parser' = "ended"
    /\ UNCHANGED <<upstream_lines, consumed, yielded>>
    /\ UNCHANGED <<poolVars, chatVars, streamVars, adaptVars, embedVars,
                   authVars, formatVars, backoffVars, metaVars>>

ParseNext == ParseLine \/ EndOfBody

\* ------------------------------------------------------------------------
\* The metadata of a Claude stream: the id and the model of message_start
\* (src/src/adapters/formatters.py lines 129-158,
\* src/src/adapters/claude_transformers.py lines 166-202, 204-214, 268-271)
\* ------------------------------------------------------------------------
\* What a chunk carries as far as the metadata and message_start go: its
\* responseId and modelVersion ("" when it has none), whether its first
\* candidate has a content, and whether it has a finishReason
ResponseIds == {"", "r1", "r2"}
ModelVersions == {"", "m1", "m2"}
MetaChunks == [responseId : ResponseIds, modelVersion : ModelVersions,
               has_content : BOOLEAN, is_final_chunk : BOOLEAN]

\* claude_routes.py lines 31-34: the FormatterContext holds a generated id
\* and the requested model; formatters.py line 148: f"msg_{chunk.responseId}"
MsgId(responseId) == <<"msg_", responseId>>
ContextId == <<"msg_", "uuid">>
ContextModel == "requested"

\* ClaudeStreamer.__init__ as ClaudeFormatter.__init__ calls it
NewMetaStreamer ==
    [response_id |-> ContextId, model |-> ContextModel,
     message_started |-> FALSE, meta_data_captured |-> FALSE,
     is_finished |-> FALSE]
NotSent == [sent |-> FALSE, id |-> <<>>, model |-> "", at |-> 0]

\* ClaudeFormatter.format_chunk lines 144-156: the id and the model are
\* taken from the chunk until a chunk with a responseId has been seen
CaptureMetadata(s, chunk) ==
    IF s.meta_data_captured THEN s
    ELSE [s EXCEPT !.response_id = IF chunk.responseId # ""
                                   THEN MsgId(chunk.responseId) ELSE @,
                   !.model = IF chunk.modelVersion # ""
                             THEN chunk.modelVersion ELSE @,
                   !.meta_data_captured = chunk.responseId # ""]

\* ClaudeStreamer.format_chunk lines 207-214 and 268-271 with
\* _ensure_message_started: a finished streamer does nothing; otherwise
\* message_start is sent, if it was not yet, with a chunk that has content
\* and with the final chunk, and the final chunk finishes the streamer
StartMessage(s, content, final) ==
    IF s.is_finished THEN [streamer |-> s, starts |-> FALSE]
    ELSE [streamer |-> [s EXCEPT !.message_started =
                                     @ \/ content \/ final,
                                 !.is_finished = final],
          starts |-> ~s.message_started /\ (content \/ final)]

MetaAtRest ==
    /\ meta_streamer = NewMetaStreamer
    /\ message_start = NotSent
    /\ seen = <<>>
    /\ stream_over = TRUE

MetaInit ==
    /\ meta_streamer = NewMetaStreamer
    /\ message_start = NotSent
    /\ seen = <<>>
    /\ stream_over = FALSE

\* The streamer after the step and the message_start it sent, if any
Started(r, s) ==
    /\ meta_streamer' = r.streamer
    /\ message_start' = IF r.starts
                        THEN [sent |-> TRUE, id |-> s.response_id,
                              model |-> s.model, at |-> Len(seen')]
                        ELSE message_start

\* process lines 149, 158-160 and ClaudeFormatter.format_chunk: a chunk
\* arrives; its metadata are looked at, then the streamer formats it
MetaChunk ==
    /\ ~stream_over
    /\ Len(seen) < MaxChunks
    /\ \E chunk \in MetaChunks :
          /\ seen' = Append(seen, chunk)
          /\ LET s == CaptureMetadata(meta_streamer, chunk)
             IN  Started(StartMessage(s, chunk.has_content,
                                      chunk.is_final_chunk), s)
    /\ UNCHANGED stream_over
    /\ UNCHANGED notMetaVars

\* process lines 162-165: the upstream's stream is over; format_chunk(None)
\* captures nothing (line 144) and is the final chunk of the streamer
MetaEnd ==
    /\ ~stream_over
    /\ stream_over' = TRUE
    /\ UNCHANGED seen
    /\ Started(StartMessage(meta_streamer, FALSE, TRUE), meta_streamer)
    /\ UNCHANGED notMetaVars

MetaNext == MetaChunk \/ MetaEnd

\* ------------------------------------------------------------------------
\* Specifications: each part of the gateway runs with the others at rest
\* ------------------------------------------------------------------------
\* The pool as load_credentials leaves it, with one credential and nobody
\* calling it
PoolAtRest ==
    /\ ncreds = 1
    /\ is_valid = [c \in Slots |-> TRUE]
    /\ token = [c \in Slots |-> "none"]
    /\ next_credential_index = 0
    /\ lock = 0
    /\ pc = [t \in Tasks |-> "idle"]
    /\ probes = [t \in Tasks |-> 0]
    /\ managed_cred = [t \in Tasks |-> NoneRes]
    /\ call = [t \in Tasks |-> NewCall]
    /\ hist = <<>>

ChatAtRest ==
    /\ project_id = [c \in Slots |-> ""]
    /\ is_onboarded = [c \in Slots |-> FALSE]
    /\ tier = [c \in Slots |-> FALSE]
    /\ rq = [r \in Reqs |-> IdleRequest]
    /\ calls = [c \in Slots |-> NoCalls]

\* The pool in use, no chat request and no stream running
InitPool ==
    /\ PoolInit /\ ChatAtRest /\ StreamInit /\ AdaptAtRest /\ EmbedAtRest
    /\ AuthAtRest
    /\ FormatAtRest
    /\ BackoffAtRest
    /\ ParseAtRest
    /\ MetaAtRest
SpecPool == InitPool /\ [][PoolNext]_vars

\* The same pool with its scheduling: the event loop runs every task that can
\* go on; asyncio.Lock wakes its waiters in the order they came, so a waiter
\* gets the lock; and every refresh comes back, with a token or an error
PoolFairness ==
    \A t \in Tasks :
        /\ SF_vars(Acquire(t))
        /\ WF_vars(Probe(t) \/ Exhausted(t))
        /\ WF_vars(RefreshOk(t) \/ RefreshError(t) \/ RefreshException(t))
SpecPoolLive == InitPool /\ [][PoolNext]_vars /\ PoolFairness

\* Chat requests on a pool of one credential
InitChat ==
    /\ PoolAtRest /\ ChatInit /\ StreamInit /\ AdaptAtRest /\ EmbedAtRest
    /\ AuthAtRest
    /\ FormatAtRest
    /\ BackoffAtRest
    /\ ParseAtRest
    /\ MetaAtRest
SpecChat == InitChat /\ [][ChatNext]_vars

\* One stream from its start to its last frame
InitStream ==
    /\ PoolAtRest /\ ChatAtRest /\ StreamInit /\ AdaptAtRest /\ EmbedAtRest
    /\ AuthAtRest
    /\ FormatAtRest
    /\ BackoffAtRest
    /\ ParseAtRest
    /\ MetaAtRest
SpecStream == InitStream /\ [][StreamNext]_vars

\* One chat request from its arrival to the upstream body
InitAdapt ==
    /\ PoolAtRest /\ ChatAtRest /\ StreamInit /\ AdaptInit /\ EmbedAtRest
    /\ AuthAtRest
    /\ FormatAtRest
    /\ BackoffAtRest
    /\ ParseAtRest
    /\ MetaAtRest
SpecAdapt == InitAdapt /\ [][AdaptNext]_vars

\* A pool in any state that its use can leave it in, with nobody calling it,
\* and credentials at any stage of onboarding
PoolInUse ==
    /\ ncreds \in 0 .. MaxCreds
    /\ is_valid \in [Slots -> BOOLEAN]
    /\ token \in [Slots -> {"none", "new"}]
    /\ next_credential_index \in Slots
    /\ \A c \in Slots \ Creds : is_valid[c] /\ token[c] = "none"
    /\ next_credential_index < ncreds \/ next_credential_index = 0
    /\ lock = 0
    /\ pc = [t \in Tasks |-> "idle"]
    /\ probes = [t \in Tasks |-> 0]
    /\ managed_cred = [t \in Tasks |-> NoneRes]
    /\ call = [t \in Tasks |-> NewCall]
    /\ hist = <<>>

ChatInUse ==
    /\ project_id \in [Slots -> {"", "cfg"}]
    /\ is_onboarded \in [Slots -> BOOLEAN]
    /\ tier = is_onboarded
    /\ \A c \in Slots \ Creds : project_id[c] = "" /\ ~is_onboarded[c]
    /\ rq = [r \in Reqs |-> IdleRequest]
    /\ calls = [c \in Slots |-> NoCalls]

\* Embedding requests on a gateway whose pool is in use
InitEmbed ==
    /\ PoolInUse
    /\ ChatInUse
    /\ StreamInit
    /\ AdaptAtRest
    /\ EMBEDDING_GEMINI_API_KEY \in ApiKeys
    /\ em = [e \in Embeds |-> IdleEmbed]
    /\ AuthAtRest
    /\ FormatAtRest
    /\ BackoffAtRest
    /\ ParseAtRest
    /\ MetaAtRest
SpecEmbed == InitEmbed /\ [][EmbedNext]_vars

\* Any request at the authentication gate, under either password
InitAuth ==
    /\ PoolAtRest
    /\ ChatAtRest
    /\ StreamInit
    /\ AdaptAtRest
    /\ EmbedAtRest
    /\ GEMINI_AUTH_PASSWORD \in Passwords
    /\ request \in Requests
    /\ answer = NotAnswered
    /\ FormatAtRest
    /\ BackoffAtRest
    /\ ParseAtRest
    /\ MetaAtRest
SpecAuth == InitAuth /\ [][AuthNext]_vars

\* Any candidate, rendered for the OpenAI or the Claude surface
InitFormat ==
    /\ PoolAtRest
    /\ ChatAtRest
    /\ StreamInit
    /\ AdaptAtRest
    /\ EmbedAtRest
    /\ AuthAtRest
    /\ candidate \in Candidates
    /\ format_as \in Renderings
    /\ formatted = NotFormatted
    /\ BackoffAtRest
    /\ ParseAtRest
    /\ MetaAtRest
SpecFormat == InitFormat /\ [][FormatNext]_vars

\* The waits of one onboarding run after another
InitBackoff ==
    /\ PoolAtRest
    /\ ChatAtRest
    /\ StreamInit
    /\ AdaptAtRest
    /\ EmbedAtRest
    /\ AuthAtRest
    /\ FormatAtRest
    /\ BackoffAtRest
    /\ ParseAtRest
    /\ MetaAtRest
SpecBackoff == InitBackoff /\ [][BackoffNext]_vars

\* Any body of the upstream, line by line
InitParse ==
    /\ PoolAtRest
    /\ ChatAtRest
    /\ StreamInit
    /\ AdaptAtRest
    /\ EmbedAtRest
    /\ AuthAtRest
    /\ FormatAtRest
    /\ BackoffAtRest
    /\ ParseInit
    /\ MetaAtRest
SpecParse == InitParse /\ [][ParseNext]_vars

\* One Claude stream from its first chunk to its end, as far as the
\* metadata go
InitMeta ==
    /\ PoolAtRest
    /\ ChatAtRest
    /\ StreamInit
    /\ AdaptAtRest
    /\ EmbedAtRest
    /\ AuthAtRest
    /\ FormatAtRest
    /\ BackoffAtRest
    /\ ParseAtRest
    /\ MetaInit
SpecMeta == InitMeta /\ [][MetaNext]_vars

\* A request with or without the right key arrives at a chat route of a
\* gateway whose pool is in any state: entries valid or not, their tokens
\* missing, fresh or expired, the cursor anywhere
GateRequests ==
    {r \in Requests : /\ r.x_goog_api_key = Missing
                      /\ r.x_api_key = Missing
                      /\ r.authorization.scheme \in {"", "Bearer "}}
InitGate ==
    /\ ncreds \in 0 .. MaxCreds
    /\ is_valid \in [Slots -> BOOLEAN]
    /\ token \in [Slots -> {"none", "fresh", "expired"}]
    /\ next_credential_index \in Slots
    /\ \A c \in Slots \ Creds : is_valid[c] /\ token[c] = "none"
    /\ next_credential_index < ncreds \/ next_credential_index = 0
    /\ lock = 0
    /\ pc = [t \in Tasks |-> "idle"]
    /\ probes = [t \in Tasks |-> 0]
    /\ managed_cred = [t \in Tasks |-> NoneRes]
    /\ call = [t \in Tasks |-> NewCall]
    /\ hist = <<>>
    /\ ChatAtRest
    /\ StreamInit
    /\ AdaptAtRest
    /\ EmbedAtRest
    /\ GEMINI_AUTH_PASSWORD \in Passwords
    /\ request \in GateRequests
    /\ answer = NotAnswered
    /\ FormatAtRest
    /\ BackoffAtRest
    /\ ParseAtRest
    /\ MetaAtRest
SpecGate == InitGate /\ [][GateNext]_vars

\* ------------------------------------------------------------------------
\* Claims about the credential pool
\* ------------------------------------------------------------------------
AllValid == \A c \in Creds : is_valid[c]
LastCalls(n) == SubSeq(hist, Len(hist) - n + 1, Len(hist))
DistinctCredentials(w) ==
    /\ \A i \in 1 .. Len(w) : w[i].res \in Creds
    /\ \A i, j \in 1 .. Len(w) : i # j => w[i].res # w[j].res

\* C1 as stated: with every entry of a pool of N valid, any N consecutive
\* calls return N distinct credentials (read in the claim's favour: of N
\* consecutive calls that each returned a credential).
C1_AnyValidWindowDistinct ==
    (/\ ncreds > 0
     /\ AllValid
     /\ Len(hist) >= ncreds
     /\ \A i \in 1 .. ncreds : LastCalls(ncreds)[i].res \in Creds)
        => DistinctCredentials(LastCalls(ncreds))

\* C1 amended: with every entry of a pool of N valid, any N consecutive calls
\* during which no token refresh fails return N distinct credentials, each
\* call the entry after the one the call before it returned.
RoundRobin(w) ==
    \A i \in 1 .. (Len(w) - 1) : w[i + 1].res = (w[i].res + 1) % ncreds

C1_RotationFairness ==
    (/\ ncreds > 0
     /\ AllValid
     /\ Len(hist) >= ncreds
     /\ \A i \in 1 .. ncreds : LastCalls(ncreds)[i].failed = {})
        => /\ DistinctCredentials(LastCalls(ncreds))
           /\ RoundRobin(LastCalls(ncreds))

C1_Witness ==
    /\ ncreds >= 2
    /\ AllValid
    /\ Len(hist) >= ncreds
    /\ \A i \in 1 .. ncreds : LastCalls(ncreds)[i].failed = {}
    /\ \E i \in 1 .. ncreds : LastCalls(ncreds)[i].how = "refreshed"

\* C2: a returned entry's token is not expired at the moment of return; the
\* call either saw it non-expired or refreshed it successfully itself.
C2_RefreshOnExpiry ==
    \A i \in 1 .. Len(hist) :
        hist[i].res # NoneRes =>
            /\ hist[i].tok # "expired"
            /\ hist[i].how \in {"observed", "refreshed"}
            /\ hist[i].how = "refreshed" =>
                   (hist[i].res \in hist[i].tried /\ hist[i].tok = "fresh")

C2_Witness ==
    \E i \in 1 .. Len(hist) :
        /\ hist[i].how = "refreshed"
        /\ hist[i].failed # {}

\* C3: once an entry's validity flag is false it stays false, and no call
\* returns that entry any more.
C3_InvalidationSticky ==
    [][\A c \in Slots :
          ~is_valid[c] =>
              /\ ~is_valid'[c]
              /\ Len(hist') > Len(hist) => hist'[Len(hist')].res # c]_poolVars

C3_Witness ==
    \E i \in 1 .. Len(hist) :
        /\ hist[i].skipped # {}
        /\ hist[i].res \in Creds

\* C9: a call made with the pool empty or every entry invalid is answered
\* 503 and attempts no refresh; no call refreshes an entry that was already
\* invalid; in a one-entry pool a permanent refresh failure gives 503 and
\* marks the entry invalid.
C9_Exhaustion ==
    \A i \in 1 .. Len(hist) :
        /\ hist[i].tried \cap hist[i].inv0 = {}
        /\ hist[i].inv0 = Creds =>
               (hist[i].status = 503 /\ hist[i].tried = {})
        /\ (ncreds = 1 /\ hist[i].revoked # {}) =>
               (hist[i].status = 503 /\ ~is_valid[0])

C9_Witness ==
    /\ ncreds = 1
    /\ \E i, j \in 1 .. Len(hist) :
          /\ i < j
          /\ hist[i].revoked = {0}
          /\ hist[i].status = 503
          /\ hist[j].inv0 = {0}
          /\ hist[j].status = 503

InLoop == {t \in Tasks : pc[t] \in {"probe", "refreshing"}}

\* C22: at most one task is inside the probe loop and it holds the lock, so
\* at most one refresh is in flight; the cursor moves only in a step of the
\* task that holds the lock; and a call's refresh succeeds only on a token
\* that is expired at that moment, so a call that gets the lock after
\* another call refreshed the credential finds the new token and does not
\* refresh again.
C22_GuardSerialises ==
    /\ [](/\ Cardinality(InLoop) <= 1
          /\ \A t \in InLoop : lock = t
          /\ Cardinality({t \in Tasks : pc[t] = "refreshing"}) <= 1)
    /\ [][/\ next_credential_index' # next_credential_index =>
                lock \in Tasks /\ pc[lock] = "probe"
          /\ (Len(hist') > Len(hist) /\ hist'[Len(hist')].how = "refreshed") =>
                /\ lock \in Tasks
                /\ pc[lock] = "refreshing"
                /\ token[hist'[Len(hist')].res] = "expired"
                /\ \A t \in Tasks \ {lock} : pc[t] \in {"idle", "waitlock"}]_vars

C22_Witness ==
    /\ \E t, u \in Tasks :
          /\ pc[t] = "refreshing"
          /\ pc[u] = "waitlock"
          /\ token[managed_cred[t]] = "expired"
          /\ next_credential_index = managed_cred[t]

\* C23: the validity flag of a credential is false only when its refresh
\* failed permanently, that is when the token endpoint declared the grant
\* gone; a failure that may pass leaves the flag true and the credential
\* eligible for later calls.
C23_OnlyPermanentInvalidates ==
    \A c \in Creds : ~is_valid[c] => token[c] = "revoked"

\* C24: cursor discipline.  The cursor stays inside the pool; a call probes
\* at most as many entries as the pool has and each of them at most once;
\* every probe moves the cursor by exactly one modulo the pool size and
\* nothing else moves it, so a call that returns entry i leaves the cursor at
\* (i + 1) modulo the pool size.
C24_CursorDiscipline ==
    /\ [](/\ ncreds > 0 => next_credential_index \in Creds
          /\ \A t \in InLoop :
                /\ probes[t] <= ncreds
                /\ call[t].skipped \cap call[t].tried = {}
                /\ Cardinality(call[t].skipped \cup call[t].tried) = probes[t])
    /\ [][/\ next_credential_index' # next_credential_index =>
                /\ lock \in Tasks
                /\ pc[lock] = "probe"
                /\ next_credential_index' = (next_credential_index + 1) % ncreds
          /\ (\E t \in Tasks : pc[t] = "probe" /\ pc'[t] # "probe") =>
                next_credential_index' =
                    IF probes[lock] < ncreds
                    THEN (next_credential_index + 1) % ncreds
                    ELSE next_credential_index
          /\ (Len(hist') > Len(hist) /\ hist'[Len(hist')].res # NoneRes) =>
                next_credential_index' = (hist'[Len(hist')].res + 1) % ncreds]_vars

C24_Witness ==
    /\ ncreds = 2
    /\ Len(hist) > 0
    /\ hist[Len(hist)].res = 1
    /\ hist[Len(hist)].skipped \cup hist[Len(hist)].failed # {}
    /\ next_credential_index = 0
    /\ \A t \in Tasks : pc[t] = "idle"

\* C36: a call of get_next_credential makes at most N probes, N the size of
\* the pool; a task that is not inside the guarded block does not hold the
\* lock, whichever way it left the block (an entry returned, the pool
\* exhausted, a refresh failed); and with callers running side by side
\* every call that was begun returns, every refresh coming back.
C36_CallsReturn ==
    /\ [](\A t \in Tasks :
             /\ probes[t] <= ncreds
             /\ pc[t] \in {"idle", "waitlock"} => lock # t
             /\ (\A u \in Tasks : pc[u] \in {"idle", "waitlock"}) => lock = 0)
    /\ \A t \in Tasks : (pc[t] # "idle") ~> (pc[t] = "idle")

\* Two calls side by side, one refreshing an entry under the lock and one
\* waiting for the lock, after a call that found the pool exhausted when
\* its refresh had failed
C36_Witness ==
    /\ \E t, u \in Tasks : pc[t] = "waitlock" /\ pc[u] = "refreshing" /\ lock = u
    /\ \E i \in 1 .. Len(hist) :
          hist[i].how = "exhausted" /\ hist[i].failed # {}

\* ------------------------------------------------------------------------
\* Claims about onboarding and the chat request
\* ------------------------------------------------------------------------

\* C4: when two requests concurrently make first use of the same credential,
\* at most one successful onboardUser call for it is observable upstream.
C4_AtMostOneOnboardDone ==
    \A c \in Slots : calls[c].done <= 1

\* C8: a non-streaming chat request whose generateContent call was answered
\* with a non-2xx status S is answered with status S and the envelope type
\* upstream_api_error, on each of the three surfaces.
C8_UpstreamStatusMirrored ==
    \A r \in Reqs :
        (rq[r].pc = "done" /\ ~rq[r].stream /\ rq[r].gen \in ErrorStatuses) =>
            rq[r].resp = [status |-> rq[r].gen, type |-> "upstream_api_error"]

\* C10: once a credential is marked onboarded no loadCodeAssist-with-project
\* or onboardUser call is issued for it, and once its project id is cached no
\* project-discovery call is issued for it.
C10_Memoised ==
    [][\A c \in Slots :
          /\ is_onboarded[c] =>
                 /\ calls'[c].load = calls[c].load
                 /\ calls'[c].onboard = calls[c].onboard
          /\ project_id[c] # "" =>
                 calls'[c].discovery = calls[c].discovery]_vars

\* C13: a streaming request whose streamGenerateContent call was answered
\* with a non-2xx status is answered with an error response of that status,
\* not with an event stream that carries the error in a frame.
C13_StreamErrorIsErrorResponse ==
    \A r \in Reqs :
        (rq[r].stream /\ rq[r].gen \in ErrorStatuses) =>
            /\ rq[r].resp.status = rq[r].gen
            /\ rq[r].resp.type # "stream"

C25_OnboardingBounded ==
    /\ [](\A r \in Reqs : rq[r].attempt \in 0 .. (max_attempts - 1))
    /\ [][\A r \in Reqs :
            LET q == rq[r]
                n == rq'[r]
                c == q.cred
            IN  /\ (q.pc = "load" /\ n.pc = "onboard") =>
                      /\ n.attempt = 0
                      /\ calls'[c].onboard = calls[c].onboard + 1
                /\ (q.pc = "sleep" /\ n.pc = "onboard") =>
                      /\ n.attempt = q.attempt + 1
                      /\ calls'[c].onboard = calls[c].onboard + 1
                /\ (q.pc = "onboard" /\ n.pc \in {"generate", "stream"}) =>
                      /\ is_onboarded'[c]
                      /\ calls'[c].onboard = calls[c].onboard
                /\ (q.pc = "sleep" /\ n.pc \in {"generate", "stream"}) =>
                      /\ q.attempt = max_attempts - 1
                      /\ n.project = q.project
                      /\ n.project # ""
                      /\ is_onboarded' = is_onboarded
                      /\ calls'[c].onboard = calls[c].onboard
                /\ (q.pc \in {"idle", "discover"} /\ n.pc \in {"generate", "stream"}) =>
                      is_onboarded[n.cred]
                /\ calls'[c].onboard # calls[c].onboard =>
                      \E d \in Reqs : /\ rq[d].pc \in {"load", "sleep"}
                                      /\ rq'[d].pc = "onboard"]_vars

C25_Witness ==
    \E r, d \in Reqs :
        /\ r # d
        /\ rq[r].pc = "done"
        /\ rq[r].attempt = max_attempts - 1
        /\ rq[r].resp.status = 200
        /\ rq[d].cred = rq[r].cred
        /\ rq[d].pc = "onboard"
        /\ ~is_onboarded[rq[r].cred]
        /\ calls[rq[r].cred].onboard = max_attempts + 1
        /\ calls[rq[r].cred].load = 2

\* A step in which the discovery of the project id, or the tier onboarding,
\* of request r fails
DiscoveryFails(r) == rq[r].pc = "discover" /\ rq'[r].pc = "done"
OnboardingFails(r) == rq[r].pc \in {"load", "onboard"} /\ rq'[r].pc = "done"

\* What such a step leaves alone: no model call is or was issued for the
\* request, and no credential's project id or onboarded flag changes
FailureLeavesNoTrace(r) ==
    /\ rq'[r].ngen = 0
    /\ \A c \in Slots : calls'[c].generate = calls[c].generate
    /\ project_id' = project_id
    /\ is_onboarded' = is_onboarded

\* C32: when project discovery or tier onboarding fails, the request is
\* answered with an error response, of the 500 class when it is discovery
\* that failed; no generateContent or streamGenerateContent call is issued
\* for the request, and project_id and is_onboarded keep their values.
C32_PreparationFailure ==
    [][\A r \in Reqs :
          /\ DiscoveryFails(r) =>
                 /\ rq'[r].resp.status \in 500 .. 599
                 /\ FailureLeavesNoTrace(r)
          /\ OnboardingFails(r) =>
                 /\ rq'[r].resp.status >= 400
                 /\ FailureLeavesNoTrace(r)]_vars

\* What holds of C32 on every surface: the error response, whatever its
\* class, and the untouched state
ErrorAnswerAndNoTrace ==
    [][\A r \in Reqs :
          (DiscoveryFails(r) \/ OnboardingFails(r)) =>
              /\ rq'[r].resp.status >= 400
              /\ FailureLeavesNoTrace(r)]_vars

\* A step in which _fetch_project_id assigns managed_cred.project_id of
\* credential c (line 53): a discovery of some request on c succeeds
AssignsProject(c) ==
    \E r \in Reqs :
        /\ rq[r].cred = c
        /\ rq[r].pc = "discover"
        /\ rq'[r].pc \notin {"discover", "done"}

\* C33: under any interleaving of requests, is_onboarded of a credential
\* goes from false to true at most once and never back, and its project_id
\* is assigned at most once: an assigned project_id is not assigned again.
C33_SetOnce ==
    [][\A c \in Slots :
          /\ is_onboarded[c] => is_onboarded'[c]
          /\ project_id[c] # "" =>
                 /\ project_id'[c] = project_id[c]
                 /\ ~AssignsProject(c)]_vars

\* What holds of C33: the values never go back.  The flag stays true once
\* true, and a project_id that is set keeps its value as long as the
\* upstream names the same project in every answer for the credential
ValuesNeverGoBack ==
    [][\A c \in Slots :
          /\ is_onboarded[c] => is_onboarded'[c]
          /\ project_id[c] # "" => project_id'[c] = project_id[c]]_vars

\* A step in which request r issues its generateContent or
\* streamGenerateContent call
IssuesGenerate(r) == rq[r].ngen = 0 /\ rq'[r].ngen = 1

\* C34: a chat request issues its model call only when prepare_credential
\* has returned for its credential: after the discovery of the project id
\* if the credential had none, and after the tier onboarding if the
\* credential was not onboarded (an onboarding that ended done, or whose
\* polls were used up); the project of the payload is then the project id
\* of the credential, and it is not empty.  While the request is in
\* discovery or onboarding it has issued no model call, and it enters
\* onboarding with a project id only.
C34_GenerateAfterPreparation ==
    /\ [](\A r \in Reqs :
             /\ rq[r].pc \in {"discover", "load", "onboard", "sleep"} =>
                    rq[r].ngen = 0
             /\ rq[r].pc = "discover" => rq[r].project = ""
             /\ rq[r].pc \in {"load", "onboard", "sleep"} =>
                    /\ rq[r].project # ""
                    /\ rq[r].project = project_id[rq[r].cred]
             /\ rq[r].ngen > 0 =>
                    /\ rq[r].project # ""
                    /\ rq[r].project = project_id[rq[r].cred])
    /\ [][\A r \in Reqs :
             IssuesGenerate(r) =>
                 LET c == rq'[r].cred IN
                 /\ rq'[r].project = project_id'[c]
                 /\ project_id'[c] # ""
                 /\ CASE rq[r].pc = "idle" ->
                             project_id[c] # "" /\ is_onboarded[c]
                      [] rq[r].pc = "discover" -> is_onboarded[c]
                      [] rq[r].pc = "load" -> tier[c] /\ is_onboarded'[c]
                      [] rq[r].pc = "onboard" -> is_onboarded'[c]
                      [] rq[r].pc = "sleep" ->
                             rq[r].attempt = max_attempts - 1
                      [] OTHER -> FALSE]_vars

\* A request that went through discovery and onboarding, alone on its
\* credential, and was answered by the model
C34_Witness ==
    \E r \in Reqs :
        /\ rq[r].pc = "done"
        /\ rq[r].resp.status = 200
        /\ rq[r].ngen = 1
        /\ rq[r].project = "api"
        /\ is_onboarded[rq[r].cred]
        /\ calls[rq[r].cred] = [discovery |-> 1, load |-> 1, onboard |-> 1,
                                done |-> 1, generate |-> 1]

\* ------------------------------------------------------------------------
\* Claims about the streams
\* ------------------------------------------------------------------------
Frames(w, ev) == {i \in 1 .. Len(w) : w[i].ev = ev}

\* The automaton of
\*   message_start (content_block_start (content_block_delta)+
\*                  content_block_stop)* message_delta message_stop
\* where k is the index the next block must carry: 0, 1, 2, ...
GrammarStep(st, f) ==
    CASE st.q = "start" /\ f.ev = "message_start" ->
             [st EXCEPT !.q = "body"]
      [] st.q = "body" /\ f.ev = "content_block_start" /\ f.index = st.k ->
             [st EXCEPT !.q = "opened"]
      [] st.q \in {"opened", "open"} /\ f.ev = "content_block_delta"
                                     /\ f.index = st.k ->
             [st EXCEPT !.q = "open"]
      [] st.q = "open" /\ f.ev = "content_block_stop" /\ f.index = st.k ->
             [q |-> "body", k |-> st.k + 1]
      [] st.q = "body" /\ f.ev = "message_delta" ->
             [st EXCEPT !.q = "closing"]
      [] st.q = "closing" /\ f.ev = "message_stop" ->
             [st EXCEPT !.q = "end"]
      [] OTHER ->
             [st EXCEPT !.q = "reject"]

RECURSIVE GrammarRun(_, _)
GrammarRun(st, w) ==
    IF w = <<>> THEN st ELSE GrammarRun(GrammarStep(st, Head(w)), Tail(w))

MatchesGrammar(w) == GrammarRun([q |-> "start", k |-> 0], w).q = "end"
PrefixOfGrammar(w) == GrammarRun([q |-> "start", k |-> 0], w).q # "reject"

\* C5 as stated: the events of every Claude stream match the grammar, with
\* block indices increasing from 0 and every delta inside an open block.
C5_EveryClaudeStream ==
    (formatter = "claude" /\ sp = "done") => MatchesGrammar(out)

\* C5 amended: the events of every Claude stream that carries no error frame
\* match the grammar, with block indices increasing from 0 and every delta
\* inside an open block (while such a stream runs its events are a prefix of
\* a matching sequence); a stream that fails carries one error frame, its
\* last frame, after a prefix of a matching sequence.
C5_ClaudeEventGrammar ==
    formatter = "claude" =>
        IF Frames(out, "error") = {}
        THEN /\ PrefixOfGrammar(out)
             /\ sp = "done" => MatchesGrammar(out)
        ELSE /\ sp = "done"
             /\ Frames(out, "error") = {Len(out)}
             /\ PrefixOfGrammar(SubSeq(out, 1, Len(out) - 1))

C5_Witness ==
    /\ formatter = "claude"
    /\ sp = "done"
    /\ Frames(out, "error") = {}
    /\ Cardinality(Frames(out, "content_block_start")) >= 2
    /\ nchunks >= 2

\* C6: every OpenAI stream that does not end in an error frame ends with
\* exactly one [DONE] frame, its last frame, whatever number of chunks came.
C6_OpenAIStreamEndsWithDone ==
    (/\ formatter = "openai"
     /\ sp = "done"
     /\ ~(out # <<>> /\ out[Len(out)] = ErrorFrame))
        => /\ out # <<>>
           /\ Frames(out, "[DONE]") = {Len(out)}

C6_Witness ==
    /\ formatter = "openai"
    /\ sp = "done"
    /\ Frames(out, "error") = {}
    /\ nchunks >= 1
    /\ Len(out) = nchunks + 1

\* C7: a stream that fails is closed without the sentinel: no [DONE] frame
\* follows an error frame.
C7_NoDoneAfterError ==
    \A i, j \in 1 .. Len(out) :
        (i < j /\ out[i] = ErrorFrame) => out[j] # DoneFrame

\* The stream met an error: a StreamError or an exception that process caught
Failed == had_error \/ raised = "Exception"

\* C12: a stream that met an error has exactly one error frame, a stream that
\* met none has no error frame; no frame of the formatter (none made from a
\* chunk, no end-of-stream event) follows the error frame, and once the error
\* is met the formatter's state and the frames sent never change again
C12_SingleErrorFrame ==
    /\ [](IF Failed
          THEN /\ Cardinality(Frames(out, "error")) = 1
               /\ \A e \in Frames(out, "error") :
                     \A j \in e + 1 .. Len(out) : out[j] = DoneFrame
          ELSE Frames(out, "error") = {})
    /\ [][Failed => streamer' = streamer /\ out' = out]_vars

C12_Witness ==
    /\ sp = "done"
    /\ Failed
    /\ formatter = "claude"
    /\ Len(out) > 1
    /\ out[Len(out)] = ErrorFrame

\* C14: from the step at which the client's disconnection cancels the stream,
\* no frame is sent (no end-of-stream event, no error frame, no [DONE]), no
\* further chunk is read from the upstream, and the stream stays cancelled
C14_NothingAfterCancel ==
    [][raised' = "CancelledError" =>
          /\ out' = out
          /\ nchunks' = nchunks
          /\ streamer' = streamer
          /\ sp' = "cancelled"]_vars

C14_Witness ==
    /\ raised = "CancelledError"
    /\ sp = "cancelled"
    /\ formatter \in {"openai", "claude"}
    /\ nchunks > 0
    /\ out # <<>>
    /\ out[Len(out)].ev \notin {"[DONE]", "error", "message_stop"}

\* The part contents that the frames carry, in the order the client reads them
RECURSIVE Sources(_)
Sources(w) == IF w = <<>> THEN <<>> ELSE Head(w).src \o Sources(Tail(w))

\* Part p of chunk c comes before part q of chunk d
Before(a, b) == a[1] < b[1] \/ (a[1] = b[1] /\ a[2] < b[2])

\* C15: the part contents reach the client in upstream order, chunk after
\* chunk and part after part within a chunk, none of them twice and none
\* from a chunk that has not arrived; on the surfaces that render one frame
\* per chunk, the k-th such frame carries parts of the k-th chunk only and
\* there is one frame per chunk received
C15_StreamOrder ==
    LET s == Sources(out)
        chunkFrames == Frames(out, "chunk")
    IN  /\ \A i, j \in 1 .. Len(s) : i < j => Before(s[i], s[j])
        /\ \A i \in 1 .. Len(s) : s[i][1] \in 1 .. nchunks
        /\ formatter \in {"openai", "gemini"} =>
               /\ Cardinality(chunkFrames) = nchunks
               /\ \A i \in chunkFrames :
                     \A k \in 1 .. Len(out[i].src) :
                         out[i].src[k][1] =
                             Cardinality({j \in chunkFrames : j <= i})

C15_Witness ==
    /\ sp = "done"
    /\ formatter = "openai"
    /\ nchunks >= 2
    /\ \E i, j \in Frames(out, "chunk") :
          i < j /\ Len(out[i].src) = 2 /\ Len(out[j].src) >= 1

BlockEvents == {"content_block_start", "content_block_delta", "content_block_stop"}
BlockFrames(w) == SelectSeq(w, LAMBDA f : f.ev \in BlockEvents)
DeltasOf(w) == SelectSeq(w, LAMBDA f : f.ev = "content_block_delta")

\* A Claude stream that is under way, and what its formatter makes in this
\* state of an input process hands to it
Feeding == formatter = "claude" /\ sp = "stream"
Fed(chunk) == ClaudeFormatChunk(streamer, Arrived(chunk, nchunks + 1))

\* The inputs that can come next in this state: any chunk while the stream
\* has chunks left, and the end of the stream at any time
NextChunks == IF nchunks < MaxChunks THEN GeminiResponse ELSE {}
NextInputs == NextChunks \cup {None}

\* What a part contributes to a Claude stream: a text delta, a tool-call
\* delta, or nothing
DeltaOfKind(kind) ==
    CASE kind = "text" -> "text_delta"
      [] kind = "call" -> "input_json_delta"
      [] OTHER -> ""

BlockOfDelta(d) == IF d = "text_delta" THEN "text" ELSE "tool_use"

\* C28: in a Claude stream every text or functionCall part gives one delta
\* of its type; a block is opened for it exactly when no block is open or
\* the open block is of the other type, and in the latter case the open
\* block is stopped first and the index goes up by one; parts of the same
\* type that follow each other put their deltas into the same block.
C28_BlockSwitching ==
    /\ (formatter = "claude" =>  
            LET B == BlockFrames(out) IN
            /\ B # <<>> => B[1].ev = "content_block_start" /\ B[1].index = 0
            /\ \A i \in 1 .. (Len(B) - 1) :
                  LET f == B[i]
                      g == B[i + 1]
                  IN  CASE f.ev = "content_block_start" ->
                               /\ g.ev = "content_block_delta"
                               /\ g.index = f.index
                               /\ BlockOfDelta(g.arg) = f.arg
                        [] f.ev = "content_block_delta" ->
                               \/ /\ g.ev = "content_block_delta"
                                  /\ g.index = f.index
                                  /\ g.arg = f.arg
                               \/ /\ g.ev = "content_block_stop"
                                  /\ g.index = f.index
                        [] OTHER ->
                               /\ g.ev = "content_block_start"
                               /\ g.index = f.index + 1
                               /\ i > 1
                               /\ B[i - 1].ev = "content_block_delta"
                               /\ BlockOfDelta(B[i - 1].arg) # g.arg)
    /\ (Feeding /\ ~streamer.is_finished =>  
            \A chunk \in NextChunks :
                LET added == DeltasOf(Fed(chunk).events)
                    wanted == SelectSeq([p \in 1 .. Len(chunk.parts) |->
                                            DeltaOfKind(chunk.parts[p])],
                                        LAMBDA d : d # "")
                IN  [i \in 1 .. Len(added) |-> added[i].arg] = wanted)

C28_Witness ==
    /\ formatter = "claude"
    /\ \E i \in 1 .. (Len(out) - 5) :
          /\ out[i].ev = "content_block_start" /\ out[i].index = 0
          /\ out[i].arg = "text"
          /\ out[i + 1].ev = "content_block_delta" /\ out[i + 1].index = 0
          /\ out[i + 2].ev = "content_block_stop" /\ out[i + 2].index = 0
          /\ out[i + 3].ev = "content_block_start" /\ out[i + 3].index = 1
          /\ out[i + 3].arg = "tool_use"
          /\ out[i + 4].ev = "content_block_delta" /\ out[i + 4].index = 1
          /\ out[i + 5].ev = "content_block_stop" /\ out[i + 5].index = 1

\* The type of the block that was started last in w ("" if none was)
RECURSIVE StartedLast(_, _)
StartedLast(w, i) ==
    IF i = 0 THEN ""
    ELSE IF w[i].ev = "content_block_start" THEN w[i].arg
    ELSE StartedLast(w, i - 1)

\* Claude's stop reason for a finishReason of the upstream
StopReasonOf(finish) ==
    CASE finish = "STOP" -> "end_turn"
      [] finish = "MAX_TOKENS" -> "max_tokens"
      [] finish = "TOOL_USE" -> "tool_use"
      [] OTHER -> "stop"

\* C29: the stop_reason of message_delta is tool_use whenever the block open
\* at the end of the stream is a tool_use block, whatever the upstream's
\* finishReason; otherwise it is the mapped finishReason of the final chunk,
\* and end_turn when the stream ended without one.
C29_StopReason ==
    Feeding =>
        \A chunk \in NextInputs :
            \A added \in {Fed(chunk).events} :
                \A i \in 1 .. Len(added) :
                    added[i].ev = "message_delta" =>
                        added[i].arg =
                            IF StartedLast(out \o added, Len(out) + Len(added))
                                   = "tool_use"
                            THEN "tool_use"
                            ELSE IF chunk.none
                            THEN "end_turn"
                            ELSE StopReasonOf(chunk.finish)

C29_Witness ==
    /\ formatter = "claude"
    /\ sp = "done"
    /\ StartedLast(out, Len(out)) = "tool_use"
    /\ Len(out) >= 2
    /\ out[Len(out) - 1].ev = "message_delta"
    /\ out[Len(out) - 1].arg = "tool_use"
    /\ out[Len(out)].ev = "message_stop"

RECURSIVE CountUpTo(_, _, _)
CountUpTo(w, ev, i) ==
    IF i = 0 THEN 0
    ELSE CountUpTo(w, ev, i - 1) + (IF w[i].ev = ev THEN 1 ELSE 0)
Count(w, ev) == CountUpTo(w, ev, Len(w))

EndEvents == {"message_delta", "message_stop"}

\* The blocks started and not stopped among the first i frames of w
RECURSIVE OpenBlocks(_, _)
OpenBlocks(w, i) ==
    IF i <= 0 THEN 0
    ELSE OpenBlocks(w, i - 1)
         + (CASE w[i].ev = "content_block_start" -> 1
              [] w[i].ev = "content_block_stop" -> -1
              [] OTHER -> 0)

\* C30: the end of a Claude stream is handled once, at the first input that
\* is a chunk whose first candidate carries a finishReason or the absent
\* chunk: message_start is emitted if it was not yet, the open block is
\* stopped, one message_delta and one message_stop follow; from then on the
\* streamer emits nothing, whatever it is handed.  No other input ends the
\* stream, and a stream that is over without an error frame has been ended.
C30_EndHandledOnce ==
    /\ formatter = "claude" =>
          /\ Count(out, "message_start") <= 1
          /\ Count(out, "message_delta") <= 1
          /\ Count(out, "message_stop") <= 1
          /\ streamer.is_finished <=> Count(out, "message_stop") = 1
          /\ (sp = "done" /\ Count(out, "error") = 0) => streamer.is_finished
    /\ Feeding =>
          \A open \in {OpenBlocks(out, Len(out))} :
          \A chunk \in NextInputs :
          \A r \in {Fed(chunk)} :
              LET added == r.events
                  n == Len(added)
              IN  IF streamer.is_finished
                  THEN added = <<>> /\ r.streamer = streamer
                  ELSE IF chunk.none \/ (chunk.cands /\ chunk.finish # "")
                  THEN /\ r.streamer.is_finished
                       /\ n >= 2
                       /\ IF out = <<>>
                          THEN n >= 3 /\ added[1].ev = "message_start"
                          ELSE out[1].ev = "message_start"
                       /\ added[n].ev = "message_stop"
                       /\ added[n - 1].ev = "message_delta"
                       /\ \A i \in 1 .. (n - 2) : added[i].ev \notin EndEvents
                       /\ \A opened \in {open + OpenBlocks(added, n - 3)} :
                              /\ opened \in {0, 1}
                              /\ opened = 1 =>
                                     added[n - 2].ev = "content_block_stop"
                              /\ opened = 0 =>
                                     n = 2 \/ added[n - 2].ev = "message_start"
                  ELSE /\ ~r.streamer.is_finished
                       /\ \A i \in 1 .. n : added[i].ev \notin EndEvents

\* A stream without any content, ended by a chunk that carries a
\* finishReason, after which the end of the upstream adds nothing
C30_Witness ==
    /\ formatter = "claude"
    /\ sp = "done"
    /\ nchunks >= 1
    /\ Len(out) = 3
    /\ out[1].ev = "message_start"
    /\ out[2].ev = "message_delta"
    /\ out[2].arg = "max_tokens"
    /\ out[3].ev = "message_stop"

\* ------------------------------------------------------------------------
\* Claims about the embedding requests
\* ------------------------------------------------------------------------

\* C16: no step of an embedding request changes the pool (its cursor, the
\* validity and the token of every credential) or the onboarding state; every
\* upstream call of an embedding request carries the configured API key; and
\* with no key configured no upstream call is made and the request fails
C16_EmbeddingsLeavePoolAlone ==
    /\ [][/\ poolVars' = poolVars
          /\ project_id' = project_id
          /\ is_onboarded' = is_onboarded
          /\ tier' = tier
          /\ calls' = calls]_vars
    /\ [](\A e \in Embeds :
            /\ em[e].ncalls > 0 =>
                   /\ EMBEDDING_GEMINI_API_KEY # ""
                   /\ em[e].key = EMBEDDING_GEMINI_API_KEY
            /\ EMBEDDING_GEMINI_API_KEY = "" =>
                   /\ em[e].ncalls = 0
                   /\ em[e].pc \in {"idle", "done"}
                   /\ em[e].pc = "done" => em[e].status = 500)

C16_Witness ==
    /\ ncreds = MaxCreds
    /\ next_credential_index = 1
    /\ \E c \in Creds : ~is_valid[c]
    /\ \E c \in Creds : is_onboarded[c]
    /\ \A e \in Embeds : em[e].pc = "done" /\ em[e].ncalls = 1
    /\ \E e \in Embeds : em[e].status = 200

\* ------------------------------------------------------------------------
\* Claims about inbound authentication
\* ------------------------------------------------------------------------
\* The bytes of a text that is the base64 form of some bytes, and of no other
StrictB64decode(enc) ==
    IF enc.padded /\ ~enc.junk
    THEN [error |-> FALSE, utf8 |-> enc.utf8, text |-> enc.text]
    ELSE [error |-> TRUE, utf8 |-> FALSE, text |-> <<>>]

\* The request presents the password in one of the five ways: as the value of
\* ?key=, x-goog-api-key or x-api-key, after "Bearer ", or as what follows the
\* first colon of the text whose base64 form follows "Basic "
Presents(req, pwd) ==
    \/ pwd \in {req.key, req.x_goog_api_key, req.x_api_key}
    \/ req.authorization.scheme = "Bearer " /\ req.authorization.value = pwd
    \/ /\ req.authorization.scheme = "Basic "
       /\ LET decoded == StrictB64decode(req.authorization.enc)
              colon == FirstColon(decoded.text)
          IN  /\ ~decoded.error
              /\ decoded.utf8
              /\ colon # 0
              /\ SubSeq(decoded.text, colon + 1, Len(decoded.text)) =
                     Characters(pwd)

\* C17: a request is accepted if and only if it presents the password in one
\* of the five ways; every other request, a malformed Basic header included,
\* is answered 401 with WWW-Authenticate: Basic
C17_AcceptedIffPresented ==
    answer # NotAnswered =>
        answer = IF Presents(request, GEMINI_AUTH_PASSWORD)
                 THEN Accepted
                 ELSE Unauthorized

\* ------------------------------------------------------------------------
\* Claims about the rendering of a candidate
\* ------------------------------------------------------------------------
\* The finish reason of a non-streamed OpenAI answer and the stop reason of a
\* Claude answer, as the two tables give them
OpenAIFinishReason ==
    [r \in UpstreamFinishReasons |->
        CASE r = "STOP" -> "stop"
          [] r = "MAX_TOKENS" -> "length"
          [] r = "SAFETY" -> "content_filter"
          [] r = "RECITATION" -> "content_filter"
          [] r = "TOOL_USE" -> "tool_calls"
          [] r = "" -> "stop"
          [] r = "OTHER" -> "stop"]
ClaudeStopReason ==
    [r \in UpstreamFinishReasons |->
        CASE r = "STOP" -> "end_turn"
          [] r = "MAX_TOKENS" -> "max_tokens"
          [] r = "TOOL_USE" -> "tool_use"
          [] r = "" -> "end_turn"
          [] r \in {"SAFETY", "RECITATION", "OTHER"} -> "stop"]

\* C20: on the OpenAI surface a choice made of the candidate's last part
\* carries the finish reason of the table (for a stream chunk, of the table
\* whenever the candidate has a finish reason) or, being the text choice of
\* a streamed part that also has a function call, none; the choice that
\* ends the last part carries the one of the table, and no choice of an
\* earlier part carries one; on the Claude surface the stop reason of the
\* answer is the one of the table
C20_FinishReasonMapping ==
    formatted.done =>
        IF format_as.surface = "openai"
        THEN \A i \in 1 .. Len(formatted.choices) :
                LET ch == formatted.choices[i]
                    ends == i = Len(formatted.choices)
                    split == /\ format_as.is_streaming /\ ~ends
                             /\ candidate.parts[Len(candidate.parts)] = "mixed"
                IN  IF ~ch.last \/ split
                    THEN ch.finish_reason = NoReason
                    ELSE IF format_as.is_streaming /\ candidate.finish = ""
                    THEN ch.finish_reason = NoReason
                    ELSE ch.finish_reason = OpenAIFinishReason[candidate.finish]
        ELSE formatted.stop_reason = ClaudeStopReason[candidate.finish]

C20_Witness ==
    /\ formatted.done
    /\ format_as.surface = "openai"
    /\ ~format_as.is_streaming
    /\ candidate.finish = "RECITATION"
    /\ Len(formatted.choices) = 2
    /\ formatted.choices[2].finish_reason = "content_filter"

\* The choices of an OpenAI rendering that carry a finish reason
WithFinishReason == {i \in 1 .. Len(formatted.choices) :
                formatted.choices[i].finish_reason # NoReason}

\* C31: when a candidate with a finishReason has been expanded into OpenAI
\* choices, streamed or not, exactly one of its choices carries a
\* finish_reason: the last one, and it carries the mapped reason.  (A
\* candidate that gives no choice at all is left out of the statement.)
C31_OnlyLastChoiceCarries ==
    (/\ formatted.done
     /\ format_as.surface = "openai"
     /\ candidate.finish # ""
     /\ formatted.choices # <<>>)
        => /\ WithFinishReason = {Len(formatted.choices)}
           /\ formatted.choices[Len(formatted.choices)].finish_reason
                  = OpenAIFinishReason[candidate.finish]

\* ------------------------------------------------------------------------
\* Claims about the onboarding backoff
\* ------------------------------------------------------------------------
\* C26 as stated: the wait after the not-done poll number k lies in
\* [2^k, 2^k + 1) seconds, and each wait is longer than the one before.
C26_HalfOpenAndIncreasing ==
    /\ delay # NoDelay =>
          /\ (2 ^ (attempt - 1)) * Unit <= delay
          /\ delay < (2 ^ (attempt - 1) + 1) * Unit
    /\ slept # NoDelay => slept < delay

\* C26, amended: the wait after the not-done poll number k lies in
\* [2^k, 2^k + 1] seconds, the upper end being reached when the float sum
\* rounds up, and no wait is shorter than the one before.
C26_ClosedAndNonDecreasing ==
    /\ delay # NoDelay =>
          /\ (2 ^ (attempt - 1)) * Unit <= delay
          /\ delay <= (2 ^ (attempt - 1) + 1) * Unit
    /\ slept # NoDelay => slept <= delay

C26_Witness ==
    /\ attempt = 2
    /\ slept = 2 * Unit
    /\ delay = 2 * Unit

\* ------------------------------------------------------------------------
\* Claims about the parser of the upstream's event stream
\* ------------------------------------------------------------------------
\* A line that carries a response: a payload that validates, or wraps one
\* that does, or carries usage metadata alone
WellFormed(l) ==
    /\ l.form = "data"
    /\ l.payload.t = "dict"
    /\ \/ model_validate(l.payload)
       \/ "response" \in l.payload.ok
       \/ "response" \notin l.payload.keys /\ "usageMetadata" \in l.payload.ok

RECURSIVE WellFormedUpTo(_)
WellFormedUpTo(n) ==
    IF n = 0 THEN <<>>
    ELSE IF WellFormed(upstream_lines[n])
    THEN Append(WellFormedUpTo(n - 1), n)
    ELSE WellFormedUpTo(n - 1)

\* C27: whatever the lines of the body, a line whose payload is no JSON, no
\* object or no valid response is passed over and the next line is parsed;
\* the parser is never left by an exception, and what it has yielded is the
\* chunks of the well-formed lines it has taken, in their order.
C27_BadLineSkipped ==
    /\ parser \in {"running", "ended"}
    /\ parser = "ended" => consumed = Len(upstream_lines)
    /\ [i \in 1 .. Len(yielded) |-> yielded[i].line] = WellFormedUpTo(consumed)

\* ------------------------------------------------------------------------

\* The keys that occur at any depth of a JSON value
RECURSIVE KeysIn(_)
KeysIn(obj) ==
    CASE obj.t = "dict" ->
             (DOMAIN obj.d) \cup UNION {KeysIn(obj.d[k]) : k \in DOMAIN obj.d}
      [] obj.t = "list" ->
             UNION {KeysIn(obj.l[i]) : i \in 1 .. Len(obj.l)}
      [] OTHER -> {}

Clean(tools) ==
    \A i \in 1 .. Len(tools.v) :
        \A j \in 1 .. Len(tools.v[i].functionDeclarations) :
            LET dec == tools.v[i].functionDeclarations[j]
            IN  dec.has_parameters =>
                    KeysIn(dec.parameters) \cap unsupported_keys = {}

\* C11: on every surface, no unsupported key occurs at any depth under
\* tools[i].functionDeclarations[j].parameters of the emitted request, for
\* every entry i and every declaration j.
C11_NoUnsupportedKeyEmitted ==
    apc = "sent" => Clean(payload.tools)

\* The value under "tools" with every declaration of every entry sanitised,
\* and nothing else changed
Sanitised(tools) ==
    [tools EXCEPT !.v = [i \in 1 .. Len(@) |-> SanitizeEntry(@[i])]]

\* C19: the body sent upstream for a native request is the inbound body with
\* the tool parameters sanitised and with the default safety settings when it
\* had none: "tools" is there, null, an object or a list exactly as it came,
\* and safetySettings and generationConfig of the client are passed unchanged
C19_NativeRoundTrip ==
    (apc = "sent" /\ inbound.surface = "gemini") =>
        /\ payload.tools = Sanitised(inbound.tools)
        /\ payload.safetySettings = IF inbound.safetySettings = "absent"
                                    THEN "default"
                                    ELSE inbound.safetySettings
        /\ payload.generationConfig = inbound.generationConfig

\* ------------------------------------------------------------------------
\* Claims about the metadata of a Claude stream
\* ------------------------------------------------------------------------
\* The chunks among the first n that carry a responseId, and those that
\* carry a modelVersion
WithResponseId(n) == {i \in 1 .. n : seen[i].responseId # ""}
WithModelVersion(n) == {i \in 1 .. n : seen[i].modelVersion # ""}
Least(S) == CHOOSE i \in S : \A j \in S : i <= j
Greatest(S) == CHOOSE i \in S : \A j \in S : i >= j

\* C35: in a Claude stream that is over, message_start carries the id made
\* of the first responseId that any chunk of the stream carries, and a
\* modelVersion that a chunk carries; the id and the model of the context
\* are used only when no chunk of the stream carries one.
C35_MetadataBeforeMessageStart ==
    (stream_over /\ message_start.sent) =>
        /\ message_start.id =
               IF WithResponseId(Len(seen)) # {}
               THEN MsgId(seen[Least(WithResponseId(Len(seen)))].responseId)
               ELSE ContextId
        /\ message_start.model = ContextModel
               <=> WithModelVersion(Len(seen)) = {}

\* What holds of C35: message_start carries what was captured from the
\* chunks up to the one it is sent with.  Its id is made of the first
\* responseId among them, its model is the last modelVersion seen up to
\* the chunk with that responseId, and the context gives what is missing
CapturedUpToMessageStart ==
    message_start.sent =>
        LET n == message_start.at
            ids == WithResponseId(n)
            upto == IF ids # {} THEN Least(ids) ELSE n
            versions == WithModelVersion(upto)
        IN  /\ message_start.id =
                   IF ids # {} THEN MsgId(seen[Least(ids)].responseId)
                   ELSE ContextId
            /\ message_start.model =
                   IF versions # {} THEN seen[Greatest(versions)].modelVersion
                   ELSE ContextModel

\* ------------------------------------------------------------------------
\* Claims about the dependencies of a chat route
\* ------------------------------------------------------------------------
\* What a call of the rotation can change in the pool
PoolState == <<next_credential_index, is_valid, token, lock, pc, hist>>

\* C37: a request that fails the inbound authentication leaves the pool as
\* it was: no call of get_next_credential is made or begun for it, so the
\* cursor does not move, no token is refreshed and no entry changes its
\* validity, neither in the step that refuses the request nor after it.
C37_RefusedRequestLeavesPool ==
    /\ [](answer = Unauthorized =>
              /\ hist = <<>>
              /\ lock = 0
              /\ \A t \in Tasks : pc[t] = "idle")
    /\ [][(answer = Unauthorized \/ answer' = Unauthorized) =>
              PoolState' = PoolState]_vars

\* A refused request at a pool whose next entry is valid and has an expired
\* token: a call for it would have moved the cursor and refreshed the token
C37_Witness ==
    /\ answer = Unauthorized
    /\ ncreds > 1
    /\ is_valid[next_credential_index]
    /\ token[next_credential_index] = "expired"

====
